---- MODULE Spec2Model ----
(***************************************************************************)
(* Model of the quiz pipeline orchestrator (src/src/runner.py) and of the  *)
(* processed-URL state tracker (src/src/state_manager.py).                 *)
(*                                                                         *)
(* URLs are modelled as the naturals 1..NumUrls; their order stands for    *)
(* the string order Python's sorted() uses.  The local tracking file and   *)
(* the remote gist survive from one run to the next; everything else is    *)
(* rebuilt by every run.  A run is driven either by main() of runner.py,   *)
(* which wires this repository's components, or by a caller that hands     *)
(* its own collaborators to process_quiz / calls the StateManager directly *)
(* (tests/test_integration.py, tests/test_state_manager.py,                *)
(* mark_all_existing_auto.py).                                             *)
(*                                                                         *)
(* Three components the pipeline calls are modelled on their own, each     *)
(* under its own specification over the same variables: the browser        *)
(* submission driver of src/src/scraper.py (SpecDriver), the LoginManager  *)
(* of src/src/login.py (SpecLogin) and the QuizParser of src/src/parser.py *)
(* (SpecParser).  Spec keeps the component variables at rest, and each     *)
(* component specification keeps the pipeline at rest.                     *)
(***************************************************************************)
EXTENDS Integers, Sequences, FiniteSets

\* ---- bounds ----
NumUrls == 2
MaxListing == 2
MaxRuns == 3
MaxCalls == 2

URLS == 1..NumUrls

VARIABLES
  run,              \* number of the current run (process execution)
  caller,           \* "main": runner.main();  "direct": caller-supplied collaborators
  pc,               \* position of the driver of the current run
  use_online,       \* StateManager.use_online after __init__
  processed_urls,   \* StateManager._processed_urls
  tracking_file,    \* the local tracking file: [kind, urls]
  gist,             \* content of the remote gist: the list under "processed_urls"
  all_quiz_urls,    \* main(): the listing
  new_quiz_urls,    \* main(): the listing filtered by is_processed
  idx,              \* main(): position in new_quiz_urls (1-based)
  successful_count, \* main()
  failed_count,     \* main()
  exit_code,        \* main()'s return value; -1 while running
  url,              \* process_quiz: its url argument; 0 when no call is active
  stage,            \* process_quiz: the statement about to run
  result,           \* process_quiz: its return value once stage = "returned"
  calls,            \* history: <<stage, outcome>> of every collaborator call of this process_quiz
  entry,            \* history: processed set, file and gist when process_quiz was entered
  loaded,           \* history: what load_processed_urls of this run saw and returned
  startup,          \* history: the startup step of main() that failed, or "none"
  item_log,         \* history: main(): one record per finished process_quiz of this run
  marked_in,        \* history: marked_in[r] is the set of URLs passed to mark_processed in run r
  io_log,           \* history: the writes of the latest mark_processed, in order
  ncalls            \* direct caller: operations issued in this run

\* the submission driver (src/src/scraper.py)
VARIABLES
  d_entry,          \* the method that was called: "submit_quiz", "_submit_quiz_post" or "none"
  d_pc,             \* the statement of the driver about to run
  d_calls,          \* driver calls issued so far
  playwright_available, \* PLAYWRIGHT_AVAILABLE
  credentials,      \* LOGIN_EMAIL and LOGIN_PASSWORD are both set
  playwright,       \* the sync_playwright() context: "stopped" or "running"
  browser,          \* the browser of this call: "none", "open" or "closed"
  submitted,        \* the site has recorded a submission of this quiz for the account
  head_text,        \* class of the text last read from the first '.solution-sec .head'
  first_head,       \* history: what the check for an already submitted quiz read
  located,          \* history: page.locator('#submit-ans') was waited for in this call
  clicked,          \* history: submit_button.click() returned in this call
  attempt,          \* the loop variable of the polling loop
  checks,           \* history: header reads done by the polling loop in this call
  poll_timeout,     \* history: the polling loop ran out (its else branch)
  d_fault,          \* history: a browser or network operation raised in this call
  d_html,           \* class of the first header of the HTML returned; "none" if none
  d_out             \* "none" while running, "html" on return, else the exception raised

\* the session provider (src/src/login.py)
VARIABLES
  l_pc,             \* the statement of get_session about to run
  l_calls,          \* get_session calls issued so far, one per process
  l_online,         \* LoginManager.use_online after __init__
  session_file,     \* the local session file: [kind, cookies]
  session_gist,     \* the cookies held by the session gist
  stored_cookies,   \* get_session: what _load_session returned ({} for None)
  l_source,         \* history: where stored_cookies came from
  l_probe,          \* history: the reply to the probe request, "none" if none was sent
  l_logins,         \* history: calls of login() made by this get_session
  jar,              \* the cookie jar of the session login() built
  l_session,        \* the cookies of the session get_session returned
  l_out,            \* "none" while running, "cached" or "fresh" on return, else the exception
  l_entry           \* history: the file and the gist when _load_session started

\* the parser (src/src/parser.py)
VARIABLES
  p_pc,             \* the statement of parse_quiz about to run
  p_container,      \* the class under which the page holds its sections
  question_sections, \* parse_quiz: the sections found
  p_idx,            \* parse_quiz: idx of the loop
  questions,        \* parse_quiz: the questions kept so far; each carries, as
                    \* history, the position of its section
  english_questions_found,  \* parse_quiz
  hindi_questions_skipped,  \* parse_quiz
  p_out             \* "none" while running, "QuizData" on return, else the exception

\* the translator (src/src/translator.py)
VARIABLES
  t_pc,             \* the statement of translate_quiz about to run
  t_len,            \* len(quiz_data.questions)
  t_q,              \* translate_quiz: position of the question in the loop (1-based)
  t_nopts,          \* number of options of the current question
  t_field,          \* _translate_question: position of the text being translated
  t_kind,           \* _translate_text: the kind of its text argument
  t_attempt,        \* _translate_text: attempt
  t_replies,        \* history: the replies to the attempts for the current text
  t_text_out,       \* what the latest _translate_text gave: "as_is", "translated",
                    \* "source" (the text itself after the loop), "Exception", "none"
  translated_questions, \* translate_quiz: len(translated_questions)
  t_fallback,       \* history: some _translate_text returned its text untranslated
                    \* after the loop
  t_out             \* "none" while running, "TranslatedQuizData" on return, else the exception

\* distribution (src/src/telegram_sender.py, src/src/telegram_text_sender.py)
VARIABLES
  s_pc,             \* the statement of the sender about to run
  s_op,             \* the method that was called: "send_pdf", "send_quiz_questions" or "none"
  s_calls,          \* sender calls issued so far
  s_file,           \* send_pdf: the file at pdf_path: [exists, size]
  s_api_calls,      \* history: calls of bot.send_document made by this send_pdf
  s_out,            \* "none" while running, else the return value or the exception
  m_lengths,        \* send_quiz_questions: the length of each formatted question
  m_idx,            \* send_quiz_questions: idx
  current_message,  \* send_quiz_questions: its length and, as history, its questions
  messages,         \* history: the messages handed to send_message, in order
  m_success_count,  \* send_quiz_questions: success_count
  m_failed_count,   \* send_quiz_questions: failed_count
  m_header          \* history: the header message was sent

\* two concurrent instances on one storage (src/src/state_manager.py)
VARIABLES
  i_pc,             \* per instance: the StateManager statement about to run
  i_urls,           \* per instance: self._processed_urls
  i_mark,           \* per instance: the URL it will mark processed
  shared_online,    \* use_online, the same configuration for both
  shared_file,      \* the local tracking file both instances use
  shared_gist,      \* the gist both instances use
  stored_at_start,  \* history: the URLs the storage held when the instances started
  last_file,        \* history: the instance whose write of the file came last
  last_gist         \* history: the instance whose PATCH of the gist succeeded last

\* the bulk scraper's worker pool (src/offline_bulk_scraper.py)
VARIABLES
  b_pc,             \* process_month: "idle", "pool" (inside the with block), "merge", "returned"
  month_urls,       \* the number of quizzes of the month (items 1..month_urls)
  max_workers,      \* the size of the pool
  future,           \* per item: "queued", "submit", "parse" or "finished"
  future_result,    \* per item: "none" until finished, then "QuizData" or "None"
  yielded,          \* the futures as_completed has yielded so far
  quiz_data_list    \* the result list: the items whose QuizData was appended, in order

pipelineVars == <<run, caller, pc, use_online, processed_urls, tracking_file, gist,
                  all_quiz_urls, new_quiz_urls, idx, successful_count, failed_count,
                  exit_code, url, stage, result, calls, entry, loaded, startup,
                  item_log, marked_in, io_log, ncalls>>

driverVars == <<d_entry, d_pc, d_calls, playwright_available, credentials, playwright,
                browser, submitted, head_text, first_head, located, clicked, attempt,
                checks, poll_timeout, d_fault, d_html, d_out>>

loginVars == <<l_pc, l_calls, l_online, session_file, session_gist, stored_cookies,
               l_source, l_probe, l_logins, jar, l_session, l_out, l_entry>>

parserVars == <<p_pc, p_container, question_sections, p_idx, questions,
                english_questions_found, hindi_questions_skipped, p_out>>

translatorVars == <<t_pc, t_len, t_q, t_nopts, t_field, t_kind, t_attempt, t_replies,
                    t_text_out, translated_questions, t_fallback, t_out>>

telegramVars == <<s_pc, s_op, s_calls, s_file, s_api_calls, s_out, m_lengths, m_idx,
                  current_message, messages, m_success_count, m_failed_count, m_header>>

instancesVars == <<i_pc, i_urls, i_mark, shared_online, shared_file, shared_gist, stored_at_start, last_file, last_gist>>

bulkVars == <<b_pc, month_urls, max_workers, future, future_result, yielded, quiz_data_list>>

componentVars == <<driverVars, loginVars, parserVars, translatorVars, telegramVars, instancesVars, bulkVars>>

notDriverVars == <<pipelineVars, loginVars, parserVars, translatorVars, telegramVars, instancesVars, bulkVars>>
notLoginVars == <<pipelineVars, driverVars, parserVars, translatorVars, telegramVars, instancesVars, bulkVars>>
notParserVars == <<pipelineVars, driverVars, loginVars, translatorVars, telegramVars, instancesVars, bulkVars>>
notTranslatorVars == <<pipelineVars, driverVars, loginVars, parserVars, telegramVars, instancesVars, bulkVars>>
notTelegramVars == <<pipelineVars, driverVars, loginVars, parserVars, translatorVars, instancesVars, bulkVars>>
notInstancesVars == <<pipelineVars, driverVars, loginVars, parserVars, translatorVars, telegramVars, bulkVars>>
notBulkVars == <<pipelineVars, driverVars, loginVars, parserVars, translatorVars, telegramVars, instancesVars>>

vars == <<pipelineVars, componentVars>>

smVars   == <<use_online, processed_urls, tracking_file, gist, marked_in>>
mainVars == <<all_quiz_urls, new_quiz_urls, idx, successful_count, failed_count, exit_code, startup>>
itemVars == <<url, stage, result, calls, entry>>

\* ---- helpers ----

\* set(list)
set(s) == {s[i] : i \in DOMAIN s}

\* sorted(list(a_set))
RECURSIVE sorted(_)
sorted(S) ==
  IF S = {} THEN <<>>
  ELSE LET m == CHOOSE x \in S : \A y \in S : x <= y
       IN  <<m>> \o sorted(S \ {m})

IsSorted(s) == \A i \in 1..(Len(s) - 1) : s[i] < s[i + 1]

SeqsUpTo(S, n) == UNION {[1..k -> S] : k \in 0..n}

\* the local tracking file: absent, not JSON, JSON that is not an object,
\* or {"processed_urls": urls}
FileMissing   == [kind |-> "missing",   urls |-> <<>>]
FileGarbage   == [kind |-> "garbage",   urls |-> <<>>]
FileNonObject == [kind |-> "nonobject", urls |-> <<>>]
FileOk(s)     == [kind |-> "ok",        urls |-> s]

NoEntry == [processed |-> {}, file |-> FileMissing, gist |-> <<>>]
NoLoad  == [done |-> FALSE, file |-> FileMissing, gist |-> <<>>, remote |-> FALSE, urls |-> {},
            after |-> FileMissing]

\* ---- StateManager (src/src/state_manager.py) ----

\* __init__: online storage is used only when requested and configured
StateManagerInit(requested, configured) == requested /\ configured

\* _load_from_gist: the URL set, or None
load_from_gist(online, readOk, g) ==
  IF online /\ readOk THEN [some |-> TRUE, urls |-> set(g)]
  ELSE [some |-> FALSE, urls |-> {}]

\* _save_to_local_file: the whole list, rewritten from the set.  The local
\* filesystem is taken to work (the IOError branch only logs); the faults
\* modelled are those of the remote store and of the pipeline's collaborators.
save_to_local_file(urls) == FileOk(sorted(urls))

\* _save_to_gist: PATCH of the whole list; a failed request leaves the gist as it was
save_to_gist(urls, g, writeOk) == IF writeOk THEN sorted(urls) ELSE g

\* _save_to_file that writes the gist first and lets a failed remote write propagate
save_to_file_remote_first(urls, file, g, online, writeOk) ==
  IF online /\ ~writeOk
    THEN [file |-> file, gist |-> g, log |-> <<"gist_failed">>, raised |-> TRUE]
    ELSE [file |-> save_to_local_file(urls),
          gist |-> IF online THEN save_to_gist(urls, g, writeOk) ELSE g,
          log  |-> (IF online THEN <<"gist_ok">> ELSE <<>>) \o <<"local">>,
          raised |-> FALSE]

\* _save_to_file: local file first, then the gist when online
save_to_file(urls, file, g, online, writeOk) ==
  [file |-> save_to_local_file(urls),
   gist |-> IF online THEN save_to_gist(urls, g, writeOk) ELSE g,
   log  |-> <<"local">> \o (IF online THEN <<IF writeOk THEN "gist_ok" ELSE "gist_failed">> ELSE <<>>),
   raised |-> FALSE]

\* load_processed_urls: [raised, urls, file]
load_processed_urls(online, readOk, file, g) ==
  LET online_urls == load_from_gist(online, readOk, g) IN
  IF online /\ online_urls.some
    THEN [raised |-> FALSE, urls |-> online_urls.urls,
          file |-> save_to_local_file(online_urls.urls), remote |-> TRUE]
  ELSE IF file.kind = "missing"
    THEN [raised |-> FALSE, urls |-> {}, file |-> FileOk(<<>>), remote |-> FALSE]
  ELSE IF file.kind = "ok"
    THEN [raised |-> FALSE, urls |-> set(file.urls), file |-> file, remote |-> FALSE]
  ELSE IF file.kind = "garbage"
    THEN [raised |-> FALSE, urls |-> {}, file |-> file, remote |-> FALSE]
  ELSE \* data.get on a value that is not a dict: AttributeError, not caught
         [raised |-> TRUE, urls |-> {}, file |-> file, remote |-> FALSE]

\* is_processed
is_processed(u, urls) == u \in urls

\* mark_processed that persists the set as it was before the add
mark_processed_saves_before_add(u, urls, file, g, online, writeOk) ==
  LET added == urls \cup {u}
      saved == save_to_file(urls, file, g, online, writeOk)
  IN  [urls |-> added, file |-> saved.file, gist |-> saved.gist,
       log |-> saved.log, raised |-> saved.raised]

\* mark_processed that appends the URL to the stored list instead of rewriting it from the set
mark_processed_appends(u, urls, file, g, online, writeOk) ==
  LET added == urls \cup {u}
      saved == save_to_file(added, file, g, online, writeOk)
  IN  [urls |-> added, file |-> FileOk(file.urls \o <<u>>), gist |-> saved.gist,
       log |-> saved.log, raised |-> saved.raised]

\* mark_processed: [urls, file, gist, log, raised]
mark_processed(u, urls, file, g, online, writeOk) ==
  LET added == urls \cup {u}
      saved == save_to_file(added, file, g, online, writeOk)
  IN  [urls |-> added, file |-> saved.file, gist |-> saved.gist,
       log |-> saved.log, raised |-> saved.raised]

\* ---- process_quiz (src/src/runner.py) ----

Raises == {"ScraperError", "ValueError", "Exception", "TypeError", "AttributeError"}

\* the order of the collaborator calls in process_quiz
StageOrder == <<"submit", "parse", "translate", "pdf_study", "pdf_practice",
                "send_message", "send_study", "send_practice", "text", "mark">>

StageAfter(st) ==
  LET i == CHOOSE k \in DOMAIN StageOrder : StageOrder[k] = st
  IN  IF i < Len(StageOrder) THEN StageOrder[i + 1] ELSE "return_true"

\* what a collaborator call can do.  wiring = "main": the components main()
\* constructs (PDFGenerator.generate_pdf takes no mode argument,
\* TelegramSender has no send_message);  wiring = "direct": collaborators
\* supplied by the caller, which accept the calls process_quiz makes.
Outcomes(wiring, st) ==
  CASE st = "submit"        -> {"ok", "ScraperError", "Exception"}
    [] st = "parse"         -> {"ok", "ValueError"}
    [] st = "translate"     -> {"ok", "Exception"}
    [] st \in {"pdf_study", "pdf_practice"} ->
         IF wiring = "main" THEN {"TypeError"} ELSE {"ok", "Exception"}
    [] st = "send_message"  ->
         IF wiring = "main" THEN {"AttributeError"} ELSE {"ok", "Exception"}
    [] st \in {"send_study", "send_practice"} -> {"True", "False", "Exception"}
    [] st = "text"          -> {"unconfigured", "True", "False", "Exception"}

\* failures that come from outside the program (network, site markup, APIs)
EnvFaults == {"ScraperError", "ValueError", "Exception", "False"}

\* process_quiz without the `if not study_success: return False` check
process_quiz_next_ignores_send_failure(st, out) ==
  IF st = "text" THEN "mark"
  ELSE IF out \in Raises THEN "return_false"
  ELSE StageAfter(st)

\* process_quiz in which a failed practice-mode send also ends the call
process_quiz_next_practice_gates(st, out) ==
  IF st = "text" THEN "mark"
  ELSE IF out \in Raises THEN "return_false"
  ELSE IF st \in {"send_study", "send_practice"} /\ out = "False" THEN "return_false"
  ELSE StageAfter(st)

\* process_quiz: where control goes after a collaborator call returned `out`
process_quiz_next(st, out) ==
  IF st = "text" THEN "mark"                          \* inner try/except, result only logged
  ELSE IF out \in Raises THEN "return_false"          \* except ScraperError / ValueError / Exception
  ELSE IF st = "send_study" /\ out = "False" THEN "return_false"
  ELSE StageAfter(st)                                 \* practice_success is only logged

\* one collaborator call of process_quiz
CallStage(st) ==
  /\ stage = st
  /\ \E out \in Outcomes(caller, st) :
       LET nxt == process_quiz_next(st, out) IN
       /\ calls' = Append(calls, <<st, out>>)
       /\ IF nxt = "return_false"
            THEN stage' = "returned" /\ result' = FALSE
            ELSE stage' = nxt /\ result' = result
  /\ UNCHANGED <<run, caller, pc, url, entry, loaded, item_log, ncalls>>
  /\ UNCHANGED smVars
  /\ UNCHANGED io_log
  /\ UNCHANGED mainVars

SubmitQuiz       == CallStage("submit")
ParseQuiz        == CallStage("parse")
TranslateQuiz    == CallStage("translate")
GeneratePdfStudy == CallStage("pdf_study")
GeneratePdfPractice == CallStage("pdf_practice")
SendMessage      == CallStage("send_message")
SendPdfStudy     == CallStage("send_study")
SendPdfPractice  == CallStage("send_practice")
SendQuizQuestions == CallStage("text")

\* state_manager.mark_processed(url); return True
MarkProcessed ==
  /\ stage = "mark"
  /\ \E writeOk \in BOOLEAN :
       LET m == mark_processed(url, processed_urls, tracking_file, gist, use_online, writeOk) IN
       /\ processed_urls' = m.urls
       /\ tracking_file' = m.file
       /\ gist' = m.gist
       /\ io_log' = m.log
       /\ stage' = "returned"
       /\ result' = ~m.raised
  /\ marked_in' = [marked_in EXCEPT ![run] = @ \cup {url}]
  /\ calls' = Append(calls, <<"mark", "ok">>)
  /\ UNCHANGED <<run, caller, pc, use_online, url, entry, loaded, item_log, ncalls>>
  /\ UNCHANGED mainVars

\* entry of process_quiz(u, ...): date extraction, then the first collaborator call
EnterProcessQuiz(u) ==
  /\ url' = u
  /\ stage' = "submit"
  /\ result' = FALSE
  /\ calls' = <<>>
  /\ entry' = [processed |-> processed_urls, file |-> tracking_file, gist |-> gist]
  /\ io_log' = <<>>

ItemRecord == [url |-> url, result |-> result,
               faults |-> {c \in set(calls) : c[2] \in EnvFaults /\ c[1] # "text"
                                               /\ ~(c[1] = "send_practice" /\ c[2] = "False")}]

LeaveProcessQuiz ==
  /\ url' = 0
  /\ stage' = "idle"
  /\ result' = FALSE
  /\ calls' = <<>>
  /\ entry' = NoEntry
  /\ io_log' = <<>>

\* ---- main (src/src/runner.py) ----

\* main() without the filter against the state tracker
filter_new_keeps_all(all, urls) == all

\* new_quiz_urls = [url for url in all_quiz_urls if not state_manager.is_processed(url)]
filter_new(all, urls) == SelectSeq(all, LAMBDA u : ~is_processed(u, urls))

\* the order of main()'s startup steps
main_after(step) ==
  CASE step = "config"  -> "load"
    [] step = "load"    -> "auth"
    [] step = "auth"    -> "listing"
    [] step = "listing" -> "filter"

\* main() that logs a startup failure and carries on
main_startup_next_continues(step, out) == main_after(step)

\* a startup step that raises ends main() in one of its except clauses
main_startup_next(step, out) == IF out = "ok" THEN main_after(step) ELSE "done"

\* main() that ignores failed_count
main_exit_code_always_zero(failed) == 0

\* main()'s return value after the processing loop
main_exit_code(failed) == IF failed > 0 THEN 1 ELSE 0

StartupStep(step, out) ==
  /\ pc' = main_startup_next(step, out)
  /\ IF out = "ok"
       THEN UNCHANGED <<exit_code, startup>>
       ELSE exit_code' = 1 /\ startup' = step

\* [1/8] load_environment_variables()
LoadEnvironmentVariables ==
  /\ caller = "main" /\ pc = "config"
  /\ \E out \in {"ok", "ValueError"} : StartupStep("config", out)
  /\ UNCHANGED <<run, caller, loaded, item_log, ncalls>>
  /\ UNCHANGED <<all_quiz_urls, new_quiz_urls, idx, successful_count, failed_count>>
  /\ UNCHANGED smVars
  /\ UNCHANGED io_log
  /\ UNCHANGED itemVars

\* [2/8] StateManager().load_processed_urls(); also the first call of a direct caller
LoadProcessedUrls ==
  /\ pc = "load"
  /\ \E readOk \in BOOLEAN :
       LET r == load_processed_urls(use_online, readOk, tracking_file, gist) IN
       /\ processed_urls' = r.urls
       /\ tracking_file' = r.file
       /\ loaded' = [done |-> ~r.raised, file |-> tracking_file, gist |-> gist,
                     remote |-> r.remote, urls |-> r.urls, after |-> r.file]
       /\ IF caller = "main"
            THEN StartupStep("load", IF r.raised THEN "AttributeError" ELSE "ok")
            ELSE /\ pc' = IF r.raised THEN "done" ELSE "ready"
                 /\ UNCHANGED <<exit_code, startup>>
  /\ UNCHANGED <<run, caller, item_log, ncalls, use_online, gist, marked_in, io_log>>
  /\ UNCHANGED <<all_quiz_urls, new_quiz_urls, idx, successful_count, failed_count>>
  /\ UNCHANGED itemVars

\* [3/8] login_manager.get_session()
GetSession ==
  /\ caller = "main" /\ pc = "auth"
  /\ \E out \in {"ok", "AuthenticationError", "Exception"} : StartupStep("auth", out)
  /\ UNCHANGED <<run, caller, loaded, item_log, ncalls>>
  /\ UNCHANGED <<all_quiz_urls, new_quiz_urls, idx, successful_count, failed_count>>
  /\ UNCHANGED smVars
  /\ UNCHANGED io_log
  /\ UNCHANGED itemVars

\* [5/8] scraper.get_quiz_urls(): the listing, duplicates included, or ScraperError
GetQuizUrls ==
  /\ caller = "main" /\ pc = "listing"
  /\ \/ \E l \in SeqsUpTo(URLS, MaxListing) :
          /\ all_quiz_urls' = l
          /\ StartupStep("listing", "ok")
     \/ /\ StartupStep("listing", "ScraperError")
        /\ UNCHANGED all_quiz_urls
  /\ UNCHANGED <<run, caller, loaded, item_log, ncalls>>
  /\ UNCHANGED <<new_quiz_urls, idx, successful_count, failed_count>>
  /\ UNCHANGED smVars
  /\ UNCHANGED io_log
  /\ UNCHANGED itemVars

\* [6/8] filter; return 0 when nothing is new
FilterNew ==
  /\ caller = "main" /\ pc = "filter"
  /\ new_quiz_urls' = filter_new(all_quiz_urls, processed_urls)
  /\ IF new_quiz_urls' = <<>>
       THEN pc' = "done" /\ exit_code' = 0
       ELSE pc' = "loop" /\ exit_code' = exit_code
  /\ idx' = 1
  /\ successful_count' = 0
  /\ failed_count' = 0
  /\ UNCHANGED <<run, caller, loaded, item_log, ncalls, all_quiz_urls, startup>>
  /\ UNCHANGED smVars
  /\ UNCHANGED io_log
  /\ UNCHANGED itemVars

\* [7/8] for idx, url in enumerate(new_quiz_urls): success = process_quiz(url, ...)
ProcessNext ==
  /\ caller = "main" /\ pc = "loop" /\ stage = "idle"
  /\ idx <= Len(new_quiz_urls)
  /\ EnterProcessQuiz(new_quiz_urls[idx])
  /\ UNCHANGED <<run, caller, pc, loaded, item_log, ncalls>>
  /\ UNCHANGED smVars
  /\ UNCHANGED mainVars

\* if success: successful_count += 1  else: failed_count += 1
ItemDone ==
  /\ caller = "main" /\ pc = "loop" /\ stage = "returned"
  /\ IF result
       THEN successful_count' = successful_count + 1 /\ failed_count' = failed_count
       ELSE failed_count' = failed_count + 1 /\ successful_count' = successful_count
  /\ idx' = idx + 1
  /\ item_log' = Append(item_log, ItemRecord)
  /\ LeaveProcessQuiz
  /\ UNCHANGED <<run, caller, pc, loaded, ncalls, all_quiz_urls, new_quiz_urls, exit_code, startup>>
  /\ UNCHANGED smVars

\* [8/8] summary and return value
Summary ==
  /\ caller = "main" /\ pc = "loop" /\ stage = "idle"
  /\ idx > Len(new_quiz_urls)
  /\ exit_code' = main_exit_code(failed_count)
  /\ pc' = "done"
  /\ UNCHANGED <<run, caller, loaded, item_log, ncalls>>
  /\ UNCHANGED <<all_quiz_urls, new_quiz_urls, idx, successful_count, failed_count, startup>>
  /\ UNCHANGED smVars
  /\ UNCHANGED io_log
  /\ UNCHANGED itemVars

\* ---- direct callers of process_quiz and of the StateManager ----

\* success = process_quiz(url, <the caller's collaborators>, state_manager, ...)
DirectProcessQuiz ==
  /\ caller = "direct" /\ pc = "ready" /\ stage = "idle"
  /\ ncalls < MaxCalls
  /\ \E u \in URLS : EnterProcessQuiz(u)
  /\ ncalls' = ncalls + 1
  /\ UNCHANGED <<run, caller, pc, loaded, item_log>>
  /\ UNCHANGED smVars
  /\ UNCHANGED mainVars

DirectReturn ==
  /\ caller = "direct" /\ pc = "ready" /\ stage = "returned"
  /\ LeaveProcessQuiz
  /\ UNCHANGED <<run, caller, pc, loaded, ncalls, item_log>>
  /\ UNCHANGED smVars
  /\ UNCHANGED mainVars

\* state_manager.mark_processed(url)
DirectMarkProcessed ==
  /\ caller = "direct" /\ pc = "ready" /\ stage = "idle"
  /\ ncalls < MaxCalls
  /\ \E u \in URLS, writeOk \in BOOLEAN :
       LET m == mark_processed(u, processed_urls, tracking_file, gist, use_online, writeOk) IN
       /\ processed_urls' = m.urls
       /\ tracking_file' = m.file
       /\ gist' = m.gist
       /\ io_log' = m.log
       /\ marked_in' = [marked_in EXCEPT ![run] = @ \cup {u}]
       /\ url' = u
  /\ ncalls' = ncalls + 1
  /\ entry' = [processed |-> processed_urls, file |-> tracking_file, gist |-> gist]
  /\ UNCHANGED <<run, caller, pc, loaded, item_log, use_online, stage, result, calls>>
  /\ UNCHANGED mainVars

\* the caller finishes; the process ends
DirectEnd ==
  /\ caller = "direct" /\ pc = "ready" /\ stage = "idle"
  /\ pc' = "done"
  /\ url' = 0
  /\ entry' = NoEntry
  /\ UNCHANGED <<run, caller, loaded, item_log, ncalls, stage, result, calls>>
  /\ io_log' = <<>>
  /\ UNCHANGED smVars
  /\ UNCHANGED mainVars

\* ---- the submission driver: QuizScraper.submit_quiz (src/src/scraper.py) ----

MaxSubmits == 2

\* max_attempts of the polling loop
max_attempts == 15

\* what the first '.solution-sec .head' can read: the correct-answer marker phrase,
\* some other text, or no such element (text_content raises)
HeadTexts == {"marker", "plain", "absent"}

\* 'Correct Answer:' in head_text or the Hindi phrase in head_text
has_marker(h) == h = "marker"

\* the header the page can show: the marker only once the site has the submission
Shown(sub) == IF sub THEN HeadTexts ELSE HeadTexts \ {"marker"}

\* exceptions of a browser operation and of a requests call
PageRaises == {"TimeoutError", "Error"}

first_check_next_always_submits(h) == "locate"

\* the check for an already submitted quiz: the statement that runs after it
first_check_next(h) == IF has_marker(h) THEN "content" ELSE "locate"

poll_next_one_more(a, h) ==
  IF has_marker(h) THEN [pc |-> "render", attempt |-> a, timeout |-> FALSE]
  ELSE IF a + 1 < max_attempts + 1 THEN [pc |-> "poll", attempt |-> a + 1, timeout |-> FALSE]
  ELSE [pc |-> "render", attempt |-> a + 1, timeout |-> TRUE]

\* one iteration of `for attempt in range(max_attempts)` whose wait returned:
\* break on the marker, else the next iteration, else the loop's else branch
poll_next(a, h) ==
  IF has_marker(h) THEN [pc |-> "render", attempt |-> a, timeout |-> FALSE]
  ELSE IF a + 1 < max_attempts THEN [pc |-> "poll", attempt |-> a + 1, timeout |-> FALSE]
  ELSE [pc |-> "render", attempt |-> a + 1, timeout |-> TRUE]

DriverIdle ==
  /\ d_entry = "none"
  /\ d_pc = "idle"
  /\ d_calls = 0
  /\ playwright_available = TRUE
  /\ credentials = TRUE
  /\ playwright = "stopped"
  /\ browser = "none"
  /\ submitted = FALSE
  /\ head_text = "none"
  /\ first_head = "none"
  /\ located = FALSE
  /\ clicked = FALSE
  /\ attempt = 0
  /\ checks = 0
  /\ poll_timeout = FALSE
  /\ d_fault = FALSE
  /\ d_html = "none"
  /\ d_out = "none"

pageVars == <<head_text, first_head, located, clicked, attempt, checks, poll_timeout>>
envVars == <<d_entry, d_calls, playwright_available, credentials>>

\* an exception leaves the try block: the finally clause runs next
RaiseInTry(exc) ==
  /\ d_out' = exc
  /\ d_pc' = "finally"

\* a caller calls submit_quiz(url), or _submit_quiz_post(url), which no code of
\* the repository calls
DriverCall ==
  /\ d_pc = "idle"
  /\ d_calls < MaxSubmits
  /\ d_calls' = d_calls + 1
  /\ \E e \in {"submit_quiz", "_submit_quiz_post"} :
       /\ d_entry' = e
       /\ d_pc' = IF e = "submit_quiz" THEN "launch" ELSE "post_fetch"
  /\ playwright_available' \in BOOLEAN
  /\ credentials' \in BOOLEAN
  /\ UNCHANGED <<playwright, browser, submitted, pageVars, d_fault, d_html, d_out>>

\* _submit_quiz_playwright up to p.chromium.launch
Launch ==
  /\ d_pc = "launch"
  /\ \/ /\ ~playwright_available
        /\ d_out' = "ScraperError"
        /\ d_pc' = "done"
        /\ UNCHANGED <<playwright, browser, d_fault>>
     \/ /\ playwright_available
        /\ playwright' = "running"
        /\ browser' = "open"
        /\ d_pc' = "new_context"
        /\ UNCHANGED <<d_out, d_fault>>
     \/ /\ playwright_available
        /\ playwright' = "stopped"
        /\ d_out' = "Error"
        /\ d_fault' = TRUE
        /\ d_pc' = "done"
        /\ UNCHANGED browser
  /\ UNCHANGED <<envVars, submitted, pageVars, d_html>>

\* browser.new_context(...) and context.new_page(), before the try block: an
\* exception leaves the with block without reaching browser.close()
NewContextAndPage ==
  /\ d_pc \in {"new_context", "new_page"}
  /\ \/ /\ d_pc' = IF d_pc = "new_context" THEN "new_page" ELSE "credentials"
        /\ UNCHANGED <<playwright, d_out, d_fault>>
     \/ /\ playwright' = "stopped"
        /\ d_out' = "Error"
        /\ d_fault' = TRUE
        /\ d_pc' = "done"
  /\ UNCHANGED <<envVars, browser, submitted, pageVars, d_html>>

\* the credentials check
CheckCredentials ==
  /\ d_pc = "credentials"
  /\ IF credentials
       THEN d_pc' = "login" /\ UNCHANGED d_out
       ELSE RaiseInTry("ScraperError")
  /\ UNCHANGED <<envVars, playwright, browser, submitted, pageVars, d_fault, d_html>>

\* the login form: goto, fill, click, wait_for_load_state
Login ==
  /\ d_pc = "login"
  /\ \/ d_pc' = "goto" /\ UNCHANGED <<d_out, d_fault>>
     \/ \E exc \in PageRaises : RaiseInTry(exc) /\ d_fault' = TRUE
  /\ UNCHANGED <<envVars, playwright, browser, submitted, pageVars, d_html>>

\* page.goto(url)
OpenQuizPage ==
  /\ d_pc = "goto"
  /\ \/ d_pc' = "check" /\ UNCHANGED <<d_out, d_fault>>
     \/ \E exc \in PageRaises : RaiseInTry(exc) /\ d_fault' = TRUE
  /\ UNCHANGED <<envVars, playwright, browser, submitted, pageVars, d_html>>

\* the check for an already submitted quiz: the first read of the header
CheckAlreadySubmitted ==
  /\ d_pc = "check"
  /\ \E h \in Shown(submitted) :
       /\ head_text' = h
       /\ first_head' = h
       /\ d_pc' = first_check_next(h)
  /\ UNCHANGED <<envVars, playwright, browser, submitted, located, clicked, attempt,
                 checks, poll_timeout, d_fault, d_html, d_out>>

\* submit_button.wait_for(state='visible'): a control that does not show raises
\* the browser library's TimeoutError, which the handler logs and re-raises
LocateSubmit ==
  /\ d_pc = "locate"
  /\ located' = TRUE
  /\ \/ d_pc' = "click" /\ UNCHANGED <<d_out, d_fault>>
     \/ RaiseInTry("TimeoutError") /\ UNCHANGED d_fault
  /\ UNCHANGED <<envVars, playwright, browser, submitted, head_text, first_head, clicked,
                 attempt, checks, poll_timeout, d_html>>

\* scroll, dialog handler, click, the wait before polling
ClickSubmit ==
  /\ d_pc = "click"
  /\ \/ /\ clicked' = TRUE
        /\ submitted' \in {submitted, TRUE}
        /\ attempt' = 0
        /\ d_pc' = "poll"
        /\ UNCHANGED <<d_out, d_fault>>
     \/ /\ \E exc \in PageRaises : RaiseInTry(exc)
        /\ d_fault' = TRUE
        /\ UNCHANGED <<clicked, submitted, attempt>>
  /\ UNCHANGED <<envVars, playwright, browser, head_text, first_head, located, checks,
                 poll_timeout, d_html>>

\* one iteration of the polling loop: read the header (a failed read counts as
\* no marker), then wait one interval unless the marker showed
Poll ==
  /\ d_pc = "poll"
  /\ checks' = checks + 1
  /\ \E h \in Shown(submitted) :
       /\ head_text' = h
       /\ \/ /\ d_pc' = poll_next(attempt, h).pc
             /\ attempt' = poll_next(attempt, h).attempt
             /\ poll_timeout' = poll_next(attempt, h).timeout
             /\ UNCHANGED <<d_out, d_fault>>
          \/ /\ ~has_marker(h)
             /\ \E exc \in PageRaises : RaiseInTry(exc)
             /\ d_fault' = TRUE
             /\ UNCHANGED <<attempt, poll_timeout>>
  /\ UNCHANGED <<envVars, playwright, browser, submitted, first_head, located, clicked, d_html>>

\* the wait for the complete render after the loop
Render ==
  /\ d_pc = "render"
  /\ \/ d_pc' = "content" /\ UNCHANGED <<d_out, d_fault>>
     \/ \E exc \in PageRaises : RaiseInTry(exc) /\ d_fault' = TRUE
  /\ UNCHANGED <<envVars, playwright, browser, submitted, pageVars, d_html>>

\* html = page.content(); the header is verified for the log only and the HTML
\* is returned either way
GetContent ==
  /\ d_pc = "content"
  /\ \/ /\ d_html' \in (IF has_marker(head_text) THEN {"marker"} ELSE Shown(submitted))
        /\ d_out' = "html"
        /\ d_pc' = "finally"
        /\ UNCHANGED d_fault
     \/ /\ \E exc \in PageRaises : RaiseInTry(exc)
        /\ d_fault' = TRUE
        /\ UNCHANGED d_html
  /\ UNCHANGED <<envVars, playwright, browser, submitted, pageVars>>

\* finally: browser.close(), then the with block ends
Finally ==
  /\ d_pc = "finally"
  /\ browser' = "closed"
  /\ playwright' = "stopped"
  /\ d_pc' = "done"
  /\ UNCHANGED <<envVars, submitted, pageVars, d_fault, d_html, d_out>>

\* _submit_quiz_post: get_quiz_page, which turns every failure into ScraperError,
\* and the search for the two quiz id inputs
PostFetch ==
  /\ d_pc = "post_fetch"
  /\ \/ d_pc' = "post_send" /\ UNCHANGED <<d_out, d_fault>>
     \/ d_pc' = "done" /\ d_out' = "ScraperError" /\ d_fault' = TRUE
     \/ d_pc' = "done" /\ d_out' = "ScraperError" /\ UNCHANGED d_fault
  /\ UNCHANGED <<envVars, playwright, browser, submitted, pageVars, d_html>>

\* session.post of the form: its status is logged, not checked; an exception
\* of requests leaves the method as it is
PostSend ==
  /\ d_pc = "post_send"
  /\ \/ /\ submitted' \in {submitted, TRUE}
        /\ d_pc' = "post_refetch"
        /\ UNCHANGED <<d_out, d_fault>>
     \/ /\ d_pc' = "done"
        /\ d_out' = "RequestException"
        /\ d_fault' = TRUE
        /\ UNCHANGED submitted
  /\ UNCHANGED <<envVars, playwright, browser, pageVars, d_html>>

\* the second get_quiz_page; its HTML is returned without a look at the header
PostRefetch ==
  /\ d_pc = "post_refetch"
  /\ \/ /\ d_html' \in Shown(submitted)
        /\ d_out' = "html"
        /\ d_pc' = "done"
        /\ UNCHANGED d_fault
     \/ /\ d_pc' = "done"
        /\ d_out' = "ScraperError"
        /\ d_fault' = TRUE
        /\ UNCHANGED d_html
  /\ UNCHANGED <<envVars, playwright, browser, submitted, pageVars>>

\* the call has ended; the next call starts with the site as this one left it
DriverReturn ==
  /\ d_pc = "done"
  /\ d_calls < MaxSubmits
  /\ d_pc' = "idle"
  /\ d_entry' = "none"
  /\ browser' = "none"
  /\ head_text' = "none"
  /\ first_head' = "none"
  /\ located' = FALSE
  /\ clicked' = FALSE
  /\ attempt' = 0
  /\ checks' = 0
  /\ poll_timeout' = FALSE
  /\ d_fault' = FALSE
  /\ d_html' = "none"
  /\ d_out' = "none"
  /\ UNCHANGED <<d_calls, playwright_available, credentials, playwright, submitted>>

DriverNext ==
  \/ DriverCall /\ UNCHANGED notDriverVars
  \/ Launch /\ UNCHANGED notDriverVars
  \/ NewContextAndPage /\ UNCHANGED notDriverVars
  \/ CheckCredentials /\ UNCHANGED notDriverVars
  \/ Login /\ UNCHANGED notDriverVars
  \/ OpenQuizPage /\ UNCHANGED notDriverVars
  \/ CheckAlreadySubmitted /\ UNCHANGED notDriverVars
  \/ LocateSubmit /\ UNCHANGED notDriverVars
  \/ ClickSubmit /\ UNCHANGED notDriverVars
  \/ Poll /\ UNCHANGED notDriverVars
  \/ Render /\ UNCHANGED notDriverVars
  \/ GetContent /\ UNCHANGED notDriverVars
  \/ Finally /\ UNCHANGED notDriverVars
  \/ PostFetch /\ UNCHANGED notDriverVars
  \/ PostSend /\ UNCHANGED notDriverVars
  \/ PostRefetch /\ UNCHANGED notDriverVars
  \/ DriverReturn /\ UNCHANGED notDriverVars

\* ---- the session provider: LoginManager.get_session (src/src/login.py) ----

MaxGetSessions == 3

\* the cookies the site can set; "other" stands for every other cookie name
CookieNames == {"PHPSESSID", "pendulum_session", "other"}

\* the names _save_session keeps
SavedNames == {"PHPSESSID", "pendulum_session"}

\* a cookie is <<name, value>>; the value is the number of the process whose
\* login got it
SessionFileMissing == [kind |-> "missing", cookies |-> {}]
SessionFileOk(c)   == [kind |-> "ok", cookies |-> c]

\* _load_session_from_gist: the cookies of the gist, None ({}) when online
\* storage is off or the request fails
load_session_from_gist(online, readOk, g) ==
  IF online /\ readOk THEN g ELSE {}

\* _load_session: the gist first, copied to the local file as a backup, then
\* the local file; an empty mapping counts as no cookies
load_session(online, readOk, backupOk, file, g) ==
  LET remote == load_session_from_gist(online, readOk, g)
      local == IF file.kind = "ok" THEN file.cookies ELSE {}
  IN  IF remote # {}
        THEN [cookies |-> remote, source |-> "gist",
              file |-> IF backupOk THEN SessionFileOk(remote) ELSE file]
      ELSE IF local # {} THEN [cookies |-> local, source |-> "file", file |-> file]
      ELSE [cookies |-> {}, source |-> "none", file |-> file]

\* what the probe request can give
Probes == {"200", "302_login", "302_other", "500", "raise"}

validate_session_accepts_redirect(probe) == probe \in {"200", "302_other"}

\* _validate_session
validate_session(probe) == probe = "200"

\* what the login request can give: an exception of requests, a status other
\* than 200, a login page that reports an error, or a page that passes
LoginReplies == {"raise", "status", "error_page", "ok"}

\* the checks of login() on the reply and on the cookie jar
login_succeeds(reply, cookies) == reply = "ok" /\ cookies # {}

\* _save_session: the kept cookies go to the local file, then to the gist
save_session(cookies, file, g, online, fileOk, gistOk) ==
  LET kept == {c \in cookies : c[1] \in SavedNames}
  IN  IF kept = {} THEN [file |-> file, gist |-> g]
      ELSE [file |-> IF fileOk THEN SessionFileOk(kept) ELSE file,
            gist |-> IF online /\ gistOk THEN kept ELSE g]

LoginIdle ==
  /\ l_pc = "idle"
  /\ l_calls = 0
  /\ l_online = FALSE
  /\ session_file = SessionFileMissing
  /\ session_gist = {}
  /\ stored_cookies = {}
  /\ l_source = "none"
  /\ l_probe = "none"
  /\ l_logins = 0
  /\ jar = {}
  /\ l_session = {}
  /\ l_out = "none"
  /\ l_entry = [file |-> SessionFileMissing, gist |-> {}, readOk |-> FALSE]

\* a new process builds its LoginManager and calls get_session
GetSessionCall ==
  /\ l_pc = "idle"
  /\ l_calls < MaxGetSessions
  /\ l_calls' = l_calls + 1
  /\ l_online' \in BOOLEAN
  /\ l_pc' = "load"
  /\ UNCHANGED <<session_file, session_gist, stored_cookies, l_source, l_probe, l_logins,
                 jar, l_session, l_out, l_entry>>

\* stored_cookies = self._load_session()
LoadSession ==
  /\ l_pc = "load"
  /\ \E readOk \in BOOLEAN, backupOk \in BOOLEAN :
       LET r == load_session(l_online, readOk, backupOk, session_file, session_gist)
       IN  /\ stored_cookies' = r.cookies
           /\ l_source' = r.source
           /\ session_file' = r.file
           /\ l_entry' = [file |-> session_file, gist |-> session_gist,
                          readOk |-> l_online /\ readOk]
           /\ l_pc' = IF r.cookies # {} THEN "validate" ELSE "login"
  /\ UNCHANGED <<l_calls, l_online, session_gist, l_probe, l_logins, jar, l_session, l_out>>

\* the session built from the stored cookies and its probe
ValidateSession ==
  /\ l_pc = "validate"
  /\ \E probe \in Probes :
       /\ l_probe' = probe
       /\ IF validate_session(probe)
            THEN l_pc' = "done" /\ l_out' = "cached" /\ l_session' = stored_cookies
            ELSE l_pc' = "login" /\ UNCHANGED <<l_out, l_session>>
  /\ UNCHANGED <<l_calls, l_online, session_file, session_gist, stored_cookies, l_source,
                 l_logins, jar, l_entry>>

\* return self.login(): a fresh session, the two requests, the checks, and
\* _save_session on success
FreshLogin ==
  /\ l_pc = "login"
  /\ l_logins' = l_logins + 1
  /\ l_pc' = "done"
  /\ \E reply \in LoginReplies, names \in SUBSET CookieNames,
        fileOk \in BOOLEAN, gistOk \in BOOLEAN :
       LET cookies == {<<n, l_calls>> : n \in names}
           s == save_session(cookies, session_file, session_gist, l_online, fileOk, gistOk)
       IN  /\ jar' = cookies
           /\ IF login_succeeds(reply, cookies)
                THEN /\ session_file' = s.file
                     /\ session_gist' = s.gist
                     /\ l_session' = cookies
                     /\ l_out' = "fresh"
                ELSE /\ l_out' = "AuthenticationError"
                     /\ UNCHANGED <<session_file, session_gist, l_session>>
  /\ UNCHANGED <<l_calls, l_online, stored_cookies, l_source, l_probe, l_entry>>

\* the process ends; the session file and the gist stay
GetSessionEnd ==
  /\ l_pc = "done"
  /\ l_calls < MaxGetSessions
  /\ l_pc' = "idle"
  /\ stored_cookies' = {}
  /\ l_source' = "none"
  /\ l_probe' = "none"
  /\ l_logins' = 0
  /\ jar' = {}
  /\ l_session' = {}
  /\ l_out' = "none"
  /\ UNCHANGED <<l_calls, l_online, session_file, session_gist, l_entry>>

LoginNext ==
  \/ GetSessionCall /\ UNCHANGED notLoginVars
  \/ LoadSession /\ UNCHANGED notLoginVars
  \/ ValidateSession /\ UNCHANGED notLoginVars
  \/ FreshLogin /\ UNCHANGED notLoginVars
  \/ GetSessionEnd /\ UNCHANGED notLoginVars

\* ---- the parser: QuizParser.parse_quiz (src/src/parser.py) ----

MaxSections == 2

\* option_labels
option_labels == <<"A", "B", "C", "D">>

\* a question text, by its character counts: Devanagari letters (U+0900 to
\* U+097F) and ASCII letters; nothing else is counted.  <<3, 7>> is exactly 30%.
TextSamples == {[dev |-> 0, eng |-> 0], [dev |-> 0, eng |-> 7], [dev |-> 3, eng |-> 8],
                [dev |-> 3, eng |-> 7], [dev |-> 3, eng |-> 0]}

\* an <li> of the option list, by the text of its 'containerr-text-opt' div:
\* no such div, "A. text", "text", "A." or nothing
OptionSamples == {<<>>,
                  <<"labelled", "plain">>,
                  <<"nodiv", "plain", "label_only", "plain">>,
                  <<"plain", "blank", "plain", "plain", "plain">>,
                  <<"labelled", "labelled", "labelled", "labelled", "labelled">>}

\* a 'solution-sec' div: missing, text with an "Answer ... X" pattern, the bare
\* letter, a letter only inside its 'answr' div, or none of these
SolutionSamples == {[kind |-> "missing", letter |-> ""],
                    [kind |-> "nothing", letter |-> ""],
                    [kind |-> "pattern", letter |-> "A"],
                    [kind |-> "pattern", letter |-> "d"],
                    [kind |-> "bare", letter |-> "B"],
                    [kind |-> "answr", letter |-> "C"]}

Section(name, text, qopt, lis, sol) ==
  [q_name |-> name, text |-> text, q_option |-> qopt, lis |-> lis, solution |-> sol]

\* the sections a page can hold: every option list with every solution, every
\* question text, a section without 'q-name', one without 'q-option'
Sections ==
  {Section(TRUE, [dev |-> 0, eng |-> 7], TRUE, o, s) : o \in OptionSamples, s \in SolutionSamples}
  \cup {Section(TRUE, t, TRUE, <<"plain", "plain", "plain", "plain">>,
                [kind |-> "pattern", letter |-> "A"]) : t \in TextSamples}
  \cup {Section(n, [dev |-> 0, eng |-> 7], q, <<"plain", "plain", "plain", "plain">>,
                [kind |-> "pattern", letter |-> "A"]) : n \in BOOLEAN, q \in BOOLEAN}

\* the class of the section containers of a page
Containers == {"q-section-inner-sol", "q-section-inner"}

is_english_text_at_most(text) ==
  IF text.dev + text.eng = 0 THEN TRUE
  ELSE 10 * text.dev <= 3 * (text.dev + text.eng)

\* _is_english_text: devanagari_count / total_alpha < 0.3
is_english_text(text) ==
  IF text.dev + text.eng = 0 THEN TRUE
  ELSE 10 * text.dev < 3 * (text.dev + text.eng)

\* _clean_option_text, then `if option_text`: the cleaned text is not empty
clean_option_text(raw) == IF raw \in {"labelled", "plain"} THEN "text" ELSE ""

\* _extract_options: the <li> that have a div with text left after cleaning get
\* the labels in order, extras are ignored; the dictionary maps each label to
\* the position of its <li>
extract_options(section) ==
  IF ~section.q_option THEN <<>>
  ELSE LET positions == [i \in 1..Len(section.lis) |-> i]
           kept == SelectSeq(positions, LAMBDA i : /\ section.lis[i] # "nodiv"
                                                   /\ clean_option_text(section.lis[i]) # "")
           n == IF Len(kept) < Len(option_labels) THEN Len(kept) ELSE Len(option_labels)
       IN  [k \in 1..n |-> kept[k]]

\* the dictionary of the options: its keys are labels
options_dict(opts) ==
  [l \in {option_labels[k] : k \in 1..Len(opts)} |->
     opts[CHOOSE k \in 1..Len(opts) : option_labels[k] = l]]

\* str.upper on the letters a to d
upper(c) ==
  CASE c = "a" -> "A" [] c = "b" -> "B" [] c = "c" -> "C" [] c = "d" -> "D" [] OTHER -> c

\* _extract_correct_answer
extract_correct_answer(section) ==
  CASE section.solution.kind = "missing" -> ""
    [] section.solution.kind = "pattern" -> upper(section.solution.letter)
    [] section.solution.kind = "bare"    -> section.solution.letter
    [] section.solution.kind = "answr"   -> section.solution.letter
    [] OTHER -> ""

\* _parse_question_section: the question, or the ValueError it raises
parse_question_section(section, question_number) ==
  IF ~section.q_name THEN [raised |-> TRUE]
  ELSE IF extract_options(section) = <<>> THEN [raised |-> TRUE]
  ELSE IF extract_correct_answer(section) = "" THEN [raised |-> TRUE]
  ELSE [raised |-> FALSE,
        question_number |-> question_number,
        question_text |-> section.text,
        options |-> options_dict(extract_options(section)),
        correct_answer |-> extract_correct_answer(section)]

after_section_error_stops(i, n) == n + 1

\* except Exception: log and continue with the next section
after_section_error(i, n) == i + 1

ParserIdle ==
  /\ p_pc = "idle"
  /\ p_container = "none"
  /\ question_sections = <<>>
  /\ p_idx = 1
  /\ questions = <<>>
  /\ english_questions_found = 0
  /\ hindi_questions_skipped = 0
  /\ p_out = "none"

\* parse_quiz(html, url) up to the loop: the sections are looked up under the
\* first class, then under the other; none at all is a ValueError
ParseQuizCall ==
  /\ p_pc = "idle"
  /\ \E c \in Containers, secs \in SeqsUpTo(Sections, MaxSections) :
       /\ p_container' = c
       /\ question_sections' = secs
       /\ IF secs = <<>>
            THEN p_pc' = "done" /\ p_out' = "ValueError"
            ELSE p_pc' = "loop" /\ UNCHANGED p_out
  /\ UNCHANGED <<p_idx, questions, english_questions_found, hindi_questions_skipped>>

\* one iteration of the loop over the sections
ParseSection ==
  /\ p_pc = "loop"
  /\ p_idx <= Len(question_sections)
  /\ LET question == parse_question_section(question_sections[p_idx], p_idx)
     IN  IF question.raised
           THEN /\ p_idx' = after_section_error(p_idx, Len(question_sections))
                /\ UNCHANGED <<questions, english_questions_found, hindi_questions_skipped>>
           ELSE /\ p_idx' = p_idx + 1
                /\ IF is_english_text(question.question_text)
                     THEN /\ questions' = Append(questions,
                               [question_number |-> english_questions_found + 1,
                                question_text |-> question.question_text,
                                options |-> question.options,
                                correct_answer |-> question.correct_answer,
                                section |-> p_idx])
                          /\ english_questions_found' = english_questions_found + 1
                          /\ UNCHANGED hindi_questions_skipped
                     ELSE /\ hindi_questions_skipped' = hindi_questions_skipped + 1
                          /\ UNCHANGED <<questions, english_questions_found>>
  /\ UNCHANGED <<p_pc, p_container, question_sections, p_out>>

\* after the loop: no question at all is a ValueError, else the QuizData
ParseEnd ==
  /\ p_pc = "loop"
  /\ p_idx > Len(question_sections)
  /\ p_pc' = "done"
  /\ p_out' = IF questions = <<>> THEN "ValueError" ELSE "QuizData"
  /\ UNCHANGED <<p_container, question_sections, p_idx, questions, english_questions_found,
                 hindi_questions_skipped>>

ParserNext ==
  \/ ParseQuizCall /\ UNCHANGED notParserVars
  \/ ParseSection /\ UNCHANGED notParserVars
  \/ ParseEnd /\ UNCHANGED notParserVars

\* ---- the translator: Translator.translate_quiz (src/src/translator.py) ----

MaxQuestions == 2

\* max_retries of _translate_text
max_retries == 3

\* a text handed to _translate_text: the empty string, white space only, one of
\* preserve_items, or text to be translated
TextKinds == {"empty", "blank", "preserved", "text"}

\* `if not text or text.strip() == ""` and `if text in self.preserve_items`
returned_as_is(kind) == kind \in {"empty", "blank", "preserved"}

\* what self.translator.translate(text) can give
TranslateReplies == {"result", "empty", "raise"}

\* one iteration of `for attempt in range(max_retries)`: a result is returned; an
\* exception is retried after the backoff and, on the last attempt, raised; an
\* empty result goes to the next iteration and, after the last one, to the
\* statements behind the loop, which return the text itself
translate_attempt(a, reply) ==
  CASE reply = "result" -> [pc |-> "returned", out |-> "translated", attempt |-> a]
    [] reply = "empty" /\ a + 1 < max_retries ->
         [pc |-> "attempt", out |-> "none", attempt |-> a + 1]
    [] reply = "empty" -> [pc |-> "returned", out |-> "source", attempt |-> a]
    [] reply = "raise" /\ a < max_retries - 1 ->
         [pc |-> "attempt", out |-> "none", attempt |-> a + 1]
    [] OTHER -> [pc |-> "raised", out |-> "Exception", attempt |-> a]

\* the texts of one question: question_text, the options, the explanation
NumTexts(nopts) == 1 + nopts + 1

TranslatorIdle ==
  /\ t_pc = "idle"
  /\ t_len = 0
  /\ t_q = 1
  /\ t_nopts = 0
  /\ t_field = 1
  /\ t_kind = "none"
  /\ t_attempt = 0
  /\ t_replies = <<>>
  /\ t_text_out = "none"
  /\ translated_questions = 0
  /\ t_fallback = FALSE
  /\ t_out = "none"

\* translate_quiz(quiz_data): the questions parse_quiz returned, at least one
TranslateQuizCall ==
  /\ t_pc = "idle"
  /\ t_len' \in 1..MaxQuestions
  /\ t_pc' = "question"
  /\ UNCHANGED <<t_q, t_nopts, t_field, t_kind, t_attempt, t_replies, t_text_out,
                 translated_questions, t_fallback, t_out>>

\* the loop of translate_quiz: the next question, or the return
NextQuestion ==
  /\ t_pc = "question"
  /\ IF t_q <= t_len
       THEN /\ t_nopts' \in 1..Len(option_labels)
            /\ t_field' = 1
            /\ t_pc' = "text"
            /\ UNCHANGED t_out
       ELSE /\ t_pc' = "done"
            /\ t_out' = "TranslatedQuizData"
            /\ UNCHANGED <<t_nopts, t_field>>
  /\ UNCHANGED <<t_len, t_q, t_kind, t_attempt, t_replies, t_text_out,
                 translated_questions, t_fallback>>

\* _translate_question: the next _translate_text call, up to its loop; after the
\* last text the question is appended
NextText ==
  /\ t_pc = "text"
  /\ IF t_field <= NumTexts(t_nopts)
       THEN /\ \E kind \in TextKinds :
                 /\ t_kind' = kind
                 /\ IF returned_as_is(kind)
                      THEN /\ t_field' = t_field + 1
                           /\ t_text_out' = "as_is"
                           /\ UNCHANGED t_pc
                      ELSE /\ t_pc' = "attempt"
                           /\ t_text_out' = "none"
                           /\ UNCHANGED t_field
            /\ t_attempt' = 0
            /\ t_replies' = <<>>
            /\ UNCHANGED <<t_q, translated_questions>>
       ELSE /\ translated_questions' = translated_questions + 1
            /\ t_q' = t_q + 1
            /\ t_pc' = "question"
            /\ UNCHANGED <<t_field, t_kind, t_attempt, t_replies, t_text_out>>
  /\ UNCHANGED <<t_len, t_nopts, t_fallback, t_out>>

\* one attempt of _translate_text; an exception leaves _translate_question and
\* translate_quiz, which logs and re-raises it
TranslateAttempt ==
  /\ t_pc = "attempt"
  /\ \E reply \in TranslateReplies :
       LET r == translate_attempt(t_attempt, reply)
       IN  /\ t_replies' = Append(t_replies, reply)
           /\ t_attempt' = r.attempt
           /\ t_text_out' = r.out
           /\ t_fallback' = (t_fallback \/ r.out = "source")
           /\ CASE r.pc = "attempt"  -> t_pc' = "attempt" /\ UNCHANGED <<t_field, t_out>>
                [] r.pc = "returned" -> t_pc' = "text" /\ t_field' = t_field + 1 /\ UNCHANGED t_out
                [] OTHER -> t_pc' = "done" /\ t_out' = "Exception" /\ UNCHANGED t_field
  /\ UNCHANGED <<t_len, t_q, t_nopts, t_kind, translated_questions>>

TranslatorNext ==
  \/ TranslateQuizCall /\ UNCHANGED notTranslatorVars
  \/ NextQuestion /\ UNCHANGED notTranslatorVars
  \/ NextText /\ UNCHANGED notTranslatorVars
  \/ TranslateAttempt /\ UNCHANGED notTranslatorVars

\* ---- distribution: TelegramSender.send_pdf (src/src/telegram_sender.py) and
\* TelegramTextSender.send_quiz_questions (src/src/telegram_text_sender.py) ----

MaxSends == 2
MaxTextQuestions == 2

\* max_size of send_pdf, in bytes
max_size == 50 * 1024 * 1024

\* the packing threshold of send_quiz_questions and the limit of the channel
\* that its comment names
safe_limit == 3800
telegram_limit == 4096

\* a PDF path: no file, or a file of some size around max_size
PdfFiles ==
  {[exists |-> FALSE, size |-> 0]}
  \cup {[exists |-> TRUE, size |-> n] : n \in {0, 1024, max_size - 1, max_size, max_size + 1}}

size_check_passes_always(file_size) == TRUE

\* `if file_size > max_size: return False`
size_check_passes(file_size) == ~(file_size > max_size)

\* what bot.send_document can do; TelegramError and IOError give False in
\* _send_pdf_async, everything else gives False in send_pdf
SendDocumentReplies == {"message", "TelegramError", "IOError", "Exception"}

\* len(format_question(question, show_answers)) of a question
FormattedLengths == {1000, 1890, 2795, 3790, 4096, 4097}

NoMessage == [len |-> 0, qs |-> <<>>]

\* current_message += "\n\n" + question_text, or current_message = question_text
add_to_message(cur, i, n) ==
  IF cur.len > 0 THEN [len |-> cur.len + 2 + n, qs |-> Append(cur.qs, i)]
  ELSE [len |-> n, qs |-> <<i>>]

\* len(current_message) + len(question_text) + 10 > 3800
exceeds_safe_limit(cur, n) == cur.len + n + 10 > safe_limit

\* the replies requests.post can get for a message: the channel refuses text
\* beyond its limit
SendMessageReplies(len) == IF len > telegram_limit THEN {FALSE} ELSE BOOLEAN

TelegramIdle ==
  /\ s_pc = "idle"
  /\ s_op = "none"
  /\ s_calls = 0
  /\ s_file = [exists |-> FALSE, size |-> 0]
  /\ s_api_calls = 0
  /\ s_out = "none"
  /\ m_lengths = <<>>
  /\ m_idx = 1
  /\ current_message = NoMessage
  /\ messages = <<>>
  /\ m_success_count = 0
  /\ m_failed_count = 0
  /\ m_header = FALSE

textVars == <<m_lengths, m_idx, current_message, messages, m_success_count,
              m_failed_count, m_header>>
pdfVars == <<s_file, s_api_calls>>

\* send_pdf(pdf_path, caption) up to the network call
SendPdfCall ==
  /\ s_pc = "idle"
  /\ s_calls < MaxSends
  /\ s_calls' = s_calls + 1
  /\ s_op' = "send_pdf"
  /\ s_api_calls' = 0
  /\ \E f \in PdfFiles :
       /\ s_file' = f
       /\ IF ~f.exists THEN s_pc' = "returned" /\ s_out' = "FileNotFoundError"
          ELSE IF ~size_check_passes(f.size) THEN s_pc' = "returned" /\ s_out' = "False"
          ELSE s_pc' = "send_document" /\ s_out' = "none"
  /\ UNCHANGED textVars

\* loop.run_until_complete(self._send_pdf_async(pdf_path, caption))
SendDocument ==
  /\ s_pc = "send_document"
  /\ s_api_calls' = s_api_calls + 1
  /\ \E reply \in SendDocumentReplies :
       s_out' = IF reply = "message" THEN "True" ELSE "False"
  /\ s_pc' = "returned"
  /\ UNCHANGED <<s_op, s_calls, s_file, textVars>>

\* send_quiz_questions(quiz_data, date): the header; a failed header ends it
SendQuizQuestionsCall ==
  /\ s_pc = "idle"
  /\ s_calls < MaxSends
  /\ s_calls' = s_calls + 1
  /\ s_op' = "send_quiz_questions"
  /\ m_lengths' \in SeqsUpTo(FormattedLengths, MaxTextQuestions)
  /\ m_idx' = 1
  /\ current_message' = NoMessage
  /\ messages' = <<>>
  /\ m_success_count' = 0
  /\ m_failed_count' = 0
  /\ \E ok \in BOOLEAN :
       /\ m_header' = ok
       /\ IF ok THEN s_pc' = "questions" /\ s_out' = "none"
          ELSE s_pc' = "returned" /\ s_out' = "False"
  /\ UNCHANGED pdfVars

\* one iteration of the loop over the questions
PackQuestion ==
  /\ s_pc = "questions"
  /\ m_idx <= Len(m_lengths)
  /\ m_idx' = m_idx + 1
  /\ IF exceeds_safe_limit(current_message, m_lengths[m_idx])
       THEN /\ current_message' = add_to_message(NoMessage, m_idx, m_lengths[m_idx])
            /\ IF current_message.len > 0
                 THEN \E ok \in SendMessageReplies(current_message.len) :
                        /\ messages' = Append(messages, current_message)
                        /\ m_success_count' = m_success_count + (IF ok THEN 1 ELSE 0)
                        /\ m_failed_count' = m_failed_count + (IF ok THEN 0 ELSE 1)
                 ELSE UNCHANGED <<messages, m_success_count, m_failed_count>>
       ELSE /\ current_message' = add_to_message(current_message, m_idx, m_lengths[m_idx])
            /\ UNCHANGED <<messages, m_success_count, m_failed_count>>
  /\ UNCHANGED <<s_pc, s_op, s_calls, s_out, pdfVars, m_lengths, m_header>>

\* the remaining message, the footer, the return value
SendRemaining ==
  /\ s_pc = "questions"
  /\ m_idx > Len(m_lengths)
  /\ IF current_message.len > 0
       THEN \E ok \in SendMessageReplies(current_message.len) :
              /\ messages' = Append(messages, current_message)
              /\ m_success_count' = m_success_count + (IF ok THEN 1 ELSE 0)
              /\ m_failed_count' = m_failed_count + (IF ok THEN 0 ELSE 1)
              /\ s_out' = IF m_success_count + (IF ok THEN 1 ELSE 0) > 0 THEN "True" ELSE "False"
       ELSE /\ s_out' = IF m_success_count > 0 THEN "True" ELSE "False"
            /\ UNCHANGED <<messages, m_success_count, m_failed_count>>
  /\ s_pc' = "returned"
  /\ UNCHANGED <<s_op, s_calls, pdfVars, m_lengths, m_idx, current_message, m_header>>

\* the caller has the result
SenderReturn ==
  /\ s_pc = "returned"
  /\ s_calls < MaxSends
  /\ s_pc' = "idle"
  /\ s_op' = "none"
  /\ s_out' = "none"
  /\ UNCHANGED <<s_calls, pdfVars, textVars>>

TelegramNext ==
  \/ SendPdfCall /\ UNCHANGED notTelegramVars
  \/ SendDocument /\ UNCHANGED notTelegramVars
  \/ SendQuizQuestionsCall /\ UNCHANGED notTelegramVars
  \/ PackQuestion /\ UNCHANGED notTelegramVars
  \/ SendRemaining /\ UNCHANGED notTelegramVars
  \/ SenderReturn /\ UNCHANGED notTelegramVars

\* ---- two instances of the program on the same storage (src/src/state_manager.py) ----

\* two runs of the program started against the same tracking file and gist
Instances == {"A", "B"}

Other(i) == CHOOSE j \in Instances : j # i

\* _save_to_local_file that keeps what the file already holds
instance_save_local_merges(stored, urls) == save_to_local_file(set(stored.urls) \cup urls)

\* _save_to_local_file of one instance: open(tracking_file, 'w') truncates
\* whatever the file holds, then the instance's own set is dumped
instance_save_local(stored, urls) == save_to_local_file(urls)

InstancesIdle ==
  /\ i_pc = [i \in Instances |-> "idle"]
  /\ i_urls = [i \in Instances |-> {}]
  /\ i_mark = [i \in Instances |-> 0]
  /\ shared_online = FALSE
  /\ shared_file = FileMissing
  /\ shared_gist = <<>>
  /\ stored_at_start = {}
  /\ last_file = "none"
  /\ last_gist = "none"

\* both instances are started: same configuration, same storage, and each
\* has one new quiz to distribute, a different one
StartInstances ==
  /\ \A i \in Instances : i_pc[i] = "idle"
  /\ \E online \in BOOLEAN, S \in SUBSET URLS, hasFile \in BOOLEAN, m \in [Instances -> URLS] :
       /\ \A i \in Instances : m[i] # m[Other(i)]
       /\ shared_online' = online
       /\ shared_file' = IF hasFile THEN FileOk(sorted(S)) ELSE FileMissing
       /\ shared_gist' = IF online THEN sorted(S) ELSE <<>>
       /\ stored_at_start' = IF hasFile \/ online THEN S ELSE {}
       /\ i_mark' = m
  /\ i_pc' = [i \in Instances |-> "load"]
  /\ UNCHANGED <<i_urls, last_file, last_gist>>

\* load_processed_urls, lines 92-96: the GET of the gist
InstanceLoadGist(i) ==
  /\ i_pc[i] = "load"
  /\ \E readOk \in BOOLEAN :
       LET online_urls == load_from_gist(shared_online, readOk, shared_gist) IN
       IF online_urls.some
         THEN /\ i_urls' = [i_urls EXCEPT ![i] = online_urls.urls]
              /\ i_pc' = [i_pc EXCEPT ![i] = "backup"]
         ELSE /\ i_pc' = [i_pc EXCEPT ![i] = "local"]
              /\ UNCHANGED i_urls
  /\ UNCHANGED <<i_mark, shared_online, shared_file, shared_gist, stored_at_start,
                 last_file, last_gist>>

\* load_processed_urls, line 98: the gist's list is written to the local file
InstanceBackup(i) ==
  /\ i_pc[i] = "backup"
  /\ shared_file' = instance_save_local(shared_file, i_urls[i])
  /\ last_file' = i
  /\ i_pc' = [i_pc EXCEPT ![i] = "loaded"]
  /\ UNCHANGED <<i_urls, i_mark, shared_online, shared_gist, stored_at_start, last_gist>>

\* load_processed_urls, lines 106 and 113-118: the existence test and, for a
\* file that exists, the read
InstanceLoadLocal(i) ==
  /\ i_pc[i] = "local"
  /\ IF shared_file.kind = "missing"
       THEN /\ i_pc' = [i_pc EXCEPT ![i] = "create"]
            /\ UNCHANGED i_urls
       ELSE /\ i_urls' = [i_urls EXCEPT ![i] =
                            load_processed_urls(FALSE, FALSE, shared_file, shared_gist).urls]
            /\ i_pc' = [i_pc EXCEPT ![i] = "loaded"]
  /\ UNCHANGED <<i_mark, shared_online, shared_file, shared_gist, stored_at_start,
                 last_file, last_gist>>

\* load_processed_urls, lines 107-110: the file found missing is written
\* with an empty list
InstanceCreate(i) ==
  /\ i_pc[i] = "create"
  /\ LET r == load_processed_urls(FALSE, FALSE, FileMissing, shared_gist) IN
       /\ shared_file' = r.file
       /\ i_urls' = [i_urls EXCEPT ![i] = r.urls]
  /\ last_file' = i
  /\ i_pc' = [i_pc EXCEPT ![i] = "loaded"]
  /\ UNCHANGED <<i_mark, shared_online, shared_gist, stored_at_start, last_gist>>

\* mark_processed, lines 145-148 and _save_to_file line 213: the add to the
\* instance's set and the rewrite of the local file
InstanceMarkLocal(i) ==
  /\ i_pc[i] = "loaded"
  /\ LET added == i_urls[i] \cup {i_mark[i]} IN
       /\ i_urls' = [i_urls EXCEPT ![i] = added]
       /\ shared_file' = instance_save_local(shared_file, added)
  /\ last_file' = i
  /\ i_pc' = [i_pc EXCEPT ![i] = IF shared_online THEN "patch" ELSE "done"]
  /\ UNCHANGED <<i_mark, shared_online, shared_gist, stored_at_start, last_gist>>

\* _save_to_file lines 216-217: the PATCH of the gist
InstanceMarkGist(i) ==
  /\ i_pc[i] = "patch"
  /\ \E writeOk \in BOOLEAN :
       /\ shared_gist' = save_to_gist(i_urls[i], shared_gist, writeOk)
       /\ last_gist' = IF writeOk THEN i ELSE last_gist
  /\ i_pc' = [i_pc EXCEPT ![i] = "done"]
  /\ UNCHANGED <<i_urls, i_mark, shared_online, shared_file, stored_at_start, last_file>>

InstancesNext ==
  \/ StartInstances /\ UNCHANGED notInstancesVars
  \/ (\E i \in Instances : InstanceLoadGist(i)) /\ UNCHANGED notInstancesVars
  \/ (\E i \in Instances : InstanceBackup(i)) /\ UNCHANGED notInstancesVars
  \/ (\E i \in Instances : InstanceLoadLocal(i)) /\ UNCHANGED notInstancesVars
  \/ (\E i \in Instances : InstanceCreate(i)) /\ UNCHANGED notInstancesVars
  \/ (\E i \in Instances : InstanceMarkLocal(i)) /\ UNCHANGED notInstancesVars
  \/ (\E i \in Instances : InstanceMarkGist(i)) /\ UNCHANGED notInstancesVars

\* ---- the bulk scraper's worker pool (src/offline_bulk_scraper.py) ----

MaxItems == 3
MaxWorkers == 2

Items == 1..month_urls

Running == {k \in Items : future[k] \in {"submit", "parse"}}

BulkIdle ==
  /\ b_pc = "idle"
  /\ month_urls = 0
  /\ max_workers = 1
  /\ future = <<>>
  /\ future_result = <<>>
  /\ yielded = {}
  /\ quiz_data_list = <<>>

\* process_month up to the with block: no quiz of the month ends the call;
\* otherwise every item is submitted to the executor
ProcessMonthCall ==
  /\ b_pc = "idle"
  /\ \E n \in 0..MaxItems, w \in 1..MaxWorkers :
       /\ month_urls' = n
       /\ max_workers' = w
       /\ future' = [k \in 1..n |-> "queued"]
       /\ future_result' = [k \in 1..n |-> "none"]
       /\ b_pc' = IF n = 0 THEN "returned" ELSE "pool"
  /\ UNCHANGED <<yielded, quiz_data_list>>

\* a free worker thread takes the oldest queued item
WorkerTakes ==
  /\ b_pc = "pool"
  /\ Cardinality(Running) < max_workers
  /\ \E k \in Items :
       /\ future[k] = "queued"
       /\ \A j \in Items : future[j] = "queued" => k <= j
       /\ future' = [future EXCEPT ![k] = "submit"]
  /\ UNCHANGED <<b_pc, month_urls, max_workers, future_result, yielded, quiz_data_list>>

\* process_single_quiz: a step that raises ends the worker's call with None
process_single_quiz_next(st, out) ==
  IF out = "raise" THEN [future |-> "finished", result |-> "None"]
  ELSE IF st = "submit" THEN [future |-> "parse", result |-> "none"]
  ELSE [future |-> "finished", result |-> "QuizData"]

WorkerStep(k, st) ==
  /\ b_pc = "pool"
  /\ future[k] = st
  /\ \E out \in {"ok", "raise"} :
       LET nxt == process_single_quiz_next(st, out) IN
       /\ future' = [future EXCEPT ![k] = nxt.future]
       /\ future_result' = [future_result EXCEPT ![k] = nxt.result]
  /\ UNCHANGED <<b_pc, month_urls, max_workers, yielded, quiz_data_list>>

\* process_single_quiz: html = self.scraper.submit_quiz(url)
WorkerSubmitQuiz == \E k \in Items : WorkerStep(k, "submit")

\* process_single_quiz: quiz_data = self.parser.parse_quiz(html, url)
WorkerParseQuiz == \E k \in Items : WorkerStep(k, "parse")

\* the coordinator's loop body without the `if quiz_data:` test
collect_appends_always(list, k, quiz_data) == Append(list, k)

\* the coordinator's loop body: the result of a completed future is appended
\* unless it is None
collect(list, k, quiz_data) == IF quiz_data # "None" THEN Append(list, k) ELSE list

\* for future in as_completed(future_to_url): one completed future, not
\* yielded before, is handled by the coordinating thread
CollectResult ==
  /\ b_pc = "pool"
  /\ \E k \in Items \ yielded :
       /\ future[k] = "finished"
       /\ quiz_data_list' = collect(quiz_data_list, k, future_result[k])
       /\ yielded' = yielded \cup {k}
  /\ UNCHANGED <<b_pc, month_urls, max_workers, future, future_result>>

\* as_completed is exhausted and the with block is left
PoolExit ==
  /\ b_pc = "pool"
  /\ yielded = Items
  /\ b_pc' = "merge"
  /\ UNCHANGED <<month_urls, max_workers, future, future_result, yielded, quiz_data_list>>

BulkNext ==
  \/ ProcessMonthCall /\ UNCHANGED notBulkVars
  \/ WorkerTakes /\ UNCHANGED notBulkVars
  \/ WorkerSubmitQuiz /\ UNCHANGED notBulkVars
  \/ WorkerParseQuiz /\ UNCHANGED notBulkVars
  \/ CollectResult /\ UNCHANGED notBulkVars
  \/ PoolExit /\ UNCHANGED notBulkVars

\* ---- runs ----

StartOfRun(c, online) ==
  /\ caller = c
  /\ pc = IF c = "main" THEN "config" ELSE "load"
  /\ use_online = online
  /\ processed_urls = {}
  /\ all_quiz_urls = <<>>
  /\ new_quiz_urls = <<>>
  /\ idx = 1
  /\ successful_count = 0
  /\ failed_count = 0
  /\ exit_code = -1
  /\ url = 0
  /\ stage = "idle"
  /\ result = FALSE
  /\ calls = <<>>
  /\ entry = NoEntry
  /\ loaded = NoLoad
  /\ startup = "none"
  /\ item_log = <<>>
  /\ io_log = <<>>
  /\ ncalls = 0

PipelineInit ==
  /\ run = 1
  /\ \E c \in {"main", "direct"}, requested \in BOOLEAN, configured \in BOOLEAN :
       StartOfRun(c, StateManagerInit(requested, configured))
  \* first run of a deployment: no tracking file yet, or one that was damaged
  \* outside the program; the gist holds {"processed_urls": []}
  /\ tracking_file \in {FileMissing, FileGarbage, FileNonObject}
  /\ gist = <<>>
  /\ marked_in = <<{}>>

\* every component at rest
ComponentsIdle ==
  DriverIdle /\ LoginIdle /\ ParserIdle /\ TranslatorIdle /\ TelegramIdle
  /\ BulkIdle
  /\ InstancesIdle

\* the pipeline before a run, on a machine without a tracking file
PipelineIdle ==
  /\ run = 1
  /\ StartOfRun("direct", FALSE)
  /\ tracking_file = FileMissing
  /\ gist = <<>>
  /\ marked_in = <<{}>>

Init == PipelineInit /\ ComponentsIdle

InitDriver == PipelineIdle /\ ComponentsIdle

\* the process has ended; the next execution starts with a fresh StateManager
NewRun ==
  /\ pc = "done"
  /\ run < MaxRuns
  /\ run' = run + 1
  /\ \E c \in {"main", "direct"}, requested \in BOOLEAN, configured \in BOOLEAN :
       /\ caller' = c
       /\ pc' = IF c = "main" THEN "config" ELSE "load"
       /\ use_online' = StateManagerInit(requested, configured)
  /\ processed_urls' = {}
  /\ all_quiz_urls' = <<>>
  /\ new_quiz_urls' = <<>>
  /\ idx' = 1
  /\ successful_count' = 0
  /\ failed_count' = 0
  /\ exit_code' = -1
  /\ url' = 0
  /\ stage' = "idle"
  /\ result' = FALSE
  /\ calls' = <<>>
  /\ entry' = NoEntry
  /\ loaded' = NoLoad
  /\ startup' = "none"
  /\ item_log' = <<>>
  /\ io_log' = <<>>
  /\ ncalls' = 0
  /\ marked_in' = Append(marked_in, {})
  /\ UNCHANGED <<tracking_file, gist>>

Next ==
  \/ LoadEnvironmentVariables /\ UNCHANGED componentVars
  \/ LoadProcessedUrls /\ UNCHANGED componentVars
  \/ GetSession /\ UNCHANGED componentVars
  \/ GetQuizUrls /\ UNCHANGED componentVars
  \/ FilterNew /\ UNCHANGED componentVars
  \/ ProcessNext /\ UNCHANGED componentVars
  \/ SubmitQuiz /\ UNCHANGED componentVars
  \/ ParseQuiz /\ UNCHANGED componentVars
  \/ TranslateQuiz /\ UNCHANGED componentVars
  \/ GeneratePdfStudy /\ UNCHANGED componentVars
  \/ GeneratePdfPractice /\ UNCHANGED componentVars
  \/ SendMessage /\ UNCHANGED componentVars
  \/ SendPdfStudy /\ UNCHANGED componentVars
  \/ SendPdfPractice /\ UNCHANGED componentVars
  \/ SendQuizQuestions /\ UNCHANGED componentVars
  \/ MarkProcessed /\ UNCHANGED componentVars
  \/ ItemDone /\ UNCHANGED componentVars
  \/ Summary /\ UNCHANGED componentVars
  \/ DirectProcessQuiz /\ UNCHANGED componentVars
  \/ DirectReturn /\ UNCHANGED componentVars
  \/ DirectMarkProcessed /\ UNCHANGED componentVars
  \/ DirectEnd /\ UNCHANGED componentVars
  \/ NewRun /\ UNCHANGED componentVars

Spec == Init /\ [][Next]_vars

SpecDriver == InitDriver /\ [][DriverNext]_vars

InitLogin == PipelineIdle /\ ComponentsIdle

SpecLogin == InitLogin /\ [][LoginNext]_vars

InitParser == PipelineIdle /\ ComponentsIdle

SpecParser == InitParser /\ [][ParserNext]_vars

InitTranslator == PipelineIdle /\ ComponentsIdle

SpecTranslator == InitTranslator /\ [][TranslatorNext]_vars

InitTelegram == PipelineIdle /\ ComponentsIdle

SpecTelegram == InitTelegram /\ [][TelegramNext]_vars

InitInstances == PipelineIdle /\ ComponentsIdle

SpecInstances == InitInstances /\ [][InstancesNext]_vars

InitBulk == PipelineIdle /\ ComponentsIdle

SpecBulk == InitBulk /\ [][BulkNext]_vars

TypeOK ==
  /\ run \in 1..MaxRuns
  /\ caller \in {"main", "direct"}
  /\ processed_urls \subseteq URLS
  /\ exit_code \in {-1, 0, 1}
  /\ tracking_file.kind = "ok" => IsSorted(tracking_file.urls)
  /\ IsSorted(gist)

\* ---- properties ----

NoDuplicates(s) == \A i, j \in DOMAIN s : i # j => s[i] # s[j]

\* a call of mark_processed has just returned (url is its argument)
JustMarked == io_log # <<>>

Called(st, out) == <<st, out>> \in set(calls)

StageRaised(st) == \E out \in Raises : Called(st, out)

\* the scraper, the parser, the translator or the PDF generator raised
EarlyStageRaised ==
  \E st \in {"submit", "parse", "translate", "pdf_study", "pdf_practice"} : StageRaised(st)

MarkOnlyAfterSendSuccess ==
  \A i \in DOMAIN calls :
    calls[i][1] = "mark" => \E j \in 1..(i - 1) : calls[j] = <<"send_study", "True">>

\* process_quiz returned False and changed neither the set nor the stores
ReturnedFalseUnmarked ==
  /\ result = FALSE
  /\ processed_urls = entry.processed
  /\ tracking_file = entry.file
  /\ gist = entry.gist
  /\ ~is_processed(url, processed_urls)

SubmitFailed == {i \in DOMAIN item_log : <<"submit", "ScraperError">> \in item_log[i].faults}

\* no collaborator other than submit_quiz failed in this run of main()
OnlySubmitFailures ==
  \A i \in DOMAIN item_log : item_log[i].faults \subseteq {<<"submit", "ScraperError">>}

\* C2: when main() has processed its new URLs and nothing but submit_quiz
\* (with ScraperError, for some of the items) failed, the processed set has
\* gained exactly the URLs of the other items and failed_count is the number
\* of items whose submit_quiz raised.
C2_OnlyFailingItemsSkipped ==
  (caller = "main" /\ pc = "done" /\ startup = "none" /\ new_quiz_urls # <<>> /\ OnlySubmitFailures)
  => /\ Len(item_log) = Len(new_quiz_urls)
     /\ failed_count = Cardinality(SubmitFailed)
     /\ processed_urls \ loaded.urls =
          {new_quiz_urls[i] : i \in DOMAIN item_log \ SubmitFailed}

MarkedBefore == UNION {marked_in[r] : r \in 1..(run - 1)}

\* the URLs marked processed in this or an earlier run
MarkedEver == UNION {marked_in[r] : r \in 1..run}

\* the URL set a local file holds
FileUrls(f) == IF f.kind = "ok" THEN set(f.urls) ELSE {}

\* C5: the processed set is append-only across runs: after the load of a
\* run, every URL marked processed in an earlier run is reported processed,
\* and a URL once marked is never removed from the local file, whatever the
\* outcomes of the remote reads and writes.
C5_AppendOnlyAcrossRuns ==
  /\ loaded.done => \A u \in MarkedBefore : is_processed(u, processed_urls)
  /\ MarkedEver \subseteq FileUrls(tracking_file)

\* C6: after load_processed_urls, when the remote store was unavailable or
\* held a URL set different from the local file's, the in-memory set is the
\* local file's set and the local file was not replaced.
C6_LocalIsSourceOfTruth ==
  (loaded.done /\ loaded.file.kind = "ok"
     /\ (~loaded.remote \/ set(loaded.gist) # FileUrls(loaded.file)))
  => (loaded.urls = FileUrls(loaded.file) /\ loaded.after = loaded.file)

C8_ProcessedUrlsNeverReenter ==
  caller = "main" =>
    /\ url # 0 => (url \notin loaded.urls /\ url \in set(all_quiz_urls))
    /\ \A i \in DOMAIN item_log : item_log[i].url \notin loaded.urls
    /\ (pc \in {"loop", "done"} /\ startup = "none" /\ set(all_quiz_urls) \subseteq loaded.urls)
         => /\ pc = "done"
            /\ exit_code = 0
            /\ item_log = <<>>
            /\ url = 0
            /\ processed_urls = loaded.urls

C8_Witness ==
  /\ caller = "main"
  /\ stage = "parse"
  /\ \E i \in DOMAIN all_quiz_urls : all_quiz_urls[i] \in loaded.urls

\* C9: when get_session fails at startup, main() ends with exit code 1
\* without fetching the listing, entering process_quiz or marking anything.
C9_AuthFailureAbortsRun ==
  (caller = "main" /\ startup = "auth") =>
    /\ pc = "done"
    /\ exit_code = 1
    /\ all_quiz_urls = <<>>
    /\ new_quiz_urls = <<>>
    /\ item_log = <<>>
    /\ url = 0
    /\ stage = "idle"
    /\ marked_in[run] = {}
    /\ processed_urls = loaded.urls

C9_Witness ==
  /\ caller = "main"
  /\ startup = "auth"
  /\ pc = "done"
  /\ loaded.urls # {}

\* C10: main() returns 0 exactly when no startup step failed and every
\* process_quiz of the run returned True (also when there was no new item);
\* otherwise it returns 1.
C10_ExitCodeReflectsFailures ==
  (caller = "main" /\ pc = "done") =>
    /\ exit_code \in {0, 1}
    /\ startup = "none" => Len(item_log) = Len(new_quiz_urls)
    /\ exit_code = 0 <=> (startup = "none" /\ \A i \in DOMAIN item_log : item_log[i].result)

C10_Witness ==
  /\ caller = "main"
  /\ pc = "done"
  /\ startup = "none"
  /\ exit_code = 1
  /\ \E i \in DOMAIN item_log : ~item_log[i].result

\* ---- properties of the submission driver (SpecDriver) ----

\* the check found the quiz already submitted in this call
AlreadySubmitted == has_marker(first_head)

\* the call ended and no browser or network operation raised in it
EndedUndisturbed == d_pc = "done" /\ ~d_fault

\* C11: when the first header of the opened quiz page already shows the
\* correct-answer marker, the driver never waits for or clicks the submit
\* control and never polls; what follows the check is the fetch of the page
\* HTML, which is returned
C11_AlreadySubmittedSkipsSubmit ==
  AlreadySubmitted =>
    /\ ~located /\ ~clicked
    /\ checks = 0 /\ ~poll_timeout
    /\ d_pc \in {"content", "finally", "done"}
    /\ EndedUndisturbed => d_out = "html" /\ has_marker(d_html)

C11_Witness ==
  /\ AlreadySubmitted
  /\ d_pc = "done"
  /\ d_out = "html"
  /\ browser = "closed"

\* C12: after the click the polling loop reads the header at most max_attempts
\* (15) times, one wait apart, and then ends; when it runs out without seeing
\* the marker, the call still returns the HTML of the page as its result and
\* raises nothing (unless the browser itself fails afterwards)
C12_PollingBoundedTimeoutReturnsHtml ==
  /\ checks <= max_attempts
  /\ attempt <= max_attempts
  /\ checks > 0 => clicked
  /\ poll_timeout => checks = max_attempts /\ ~has_marker(head_text)
  /\ poll_timeout /\ EndedUndisturbed => d_out = "html" /\ d_html \in HeadTexts

C12_Witness ==
  /\ poll_timeout
  /\ checks = max_attempts
  /\ d_pc = "done"
  /\ d_out = "html"
  /\ ~has_marker(d_html)

\* C13: when a driver call has ended, on whatever path, the browser it
\* launched has been closed
C13_BrowserClosedOnEveryExit ==
  d_pc = "done" => browser # "open"

\* the submit control did not become visible: it was waited for, the wait
\* ended the call, and nothing else failed
SubmitControlNotVisible ==
  /\ d_entry = "submit_quiz"
  /\ d_pc = "done"
  /\ ~AlreadySubmitted /\ located /\ ~clicked /\ ~d_fault

\* C14: when the quiz is not yet submitted and the submit control does not
\* become visible within its wait, submit_quiz ends with a ScraperError
C14_SubmitNotVisibleRaisesScraperError ==
  SubmitControlNotVisible => d_out = "ScraperError"

\* the POST path was taken and failed, or its re-fetched page does not show
\* the marker in the first header
PostNotVerified ==
  /\ d_entry = "_submit_quiz_post"
  /\ d_pc = "done"
  /\ d_out # "html" \/ ~has_marker(d_html)

CachedAtEntry ==
  IF l_entry.readOk /\ l_entry.gist # {} THEN l_entry.gist
  ELSE IF l_entry.file.kind = "ok" THEN l_entry.file.cookies
  ELSE {}

\* C16: get_session looks for cached cookies first, in the remote store and
\* then in the local file; it returns the cached session without a login
\* exactly when cached cookies exist and the probe answers 200; in every other
\* case (no cookies, probe redirected, refused or raising) it calls login()
\* exactly once and its result is that login's session or its error
C16_CachedFirstElseOneLogin ==
  l_pc = "done" =>
    /\ stored_cookies = CachedAtEntry
    /\ l_probe # "none" <=> stored_cookies # {}
    /\ l_out = "cached" <=> (stored_cookies # {} /\ l_probe = "200")
    /\ l_out = "cached" => l_logins = 0 /\ l_session = stored_cookies
    /\ l_out # "cached" => l_logins = 1 /\ l_out \in {"fresh", "AuthenticationError"}
    /\ l_out = "fresh" => l_session = jar /\ jar # {}

C16_Witness ==
  /\ l_pc = "done"
  /\ l_out = "fresh"
  /\ l_source = "gist"
  /\ l_entry.file.kind = "ok" /\ l_entry.file.cookies # l_entry.gist
  /\ l_probe = "302_login"

C16_WitnessCached ==
  /\ l_pc = "done"
  /\ l_out = "cached"
  /\ l_source = "file"

\* C17: after login() has returned a session, the local session file holds
\* cookies, and they are cookies of that session
C17_SuccessfulLoginPersistsCookies ==
  l_pc = "done" /\ l_out = "fresh" =>
    /\ session_file.kind = "ok"
    /\ session_file.cookies # {}
    /\ session_file.cookies \subseteq jar

\* ---- properties of the parser (SpecParser) ----

\* the section has a question text element, at least one option with text and
\* a correct answer that can be read
WellFormed(sec) ==
  /\ sec.q_name
  /\ sec.q_option /\ \E i \in DOMAIN sec.lis : sec.lis[i] \in {"labelled", "plain"}
  /\ sec.solution.kind \in {"pattern", "bare", "answr"}

\* fewer than 30 in 100 of the counted letters are Devanagari
DevanagariBelow30Percent(text) ==
  text.dev = 0 \/ 100 * text.dev < 30 * (text.dev + text.eng)

\* the positions of the sections that are to be returned, in document order
Expected ==
  SelectSeq([i \in 1..Len(question_sections) |-> i],
            LAMBDA i : /\ WellFormed(question_sections[i])
                       /\ DevanagariBelow30Percent(question_sections[i].text))

ParseDone == p_pc = "done"

C19_EnglishOnlyRenumbered ==
  /\ \A k \in DOMAIN questions : questions[k].question_number = k
  /\ ParseDone /\ question_sections # <<>> =>
       /\ Len(questions) = Len(Expected)
       /\ \A k \in DOMAIN questions :
            /\ questions[k].section = Expected[k]
            /\ questions[k].question_text = question_sections[Expected[k]].text

C19_Witness ==
  /\ ParseDone
  /\ Len(question_sections) = 2
  /\ WellFormed(question_sections[1])
  /\ question_sections[1].text = [dev |-> 3, eng |-> 7]
  /\ Len(questions) = 1
  /\ questions[1].section = 2 /\ questions[1].question_number = 1
  /\ questions[1].question_text = [dev |-> 3, eng |-> 8]

\* C20: every question returned has the labels A, B, C, D in this order
\* without a gap as the keys of its options, and its correct_answer is one of
\* those keys
C20_LabelsAndAnswerAmongOptions ==
  \A k \in DOMAIN questions :
    /\ \E n \in 1..Len(option_labels) :
         DOMAIN questions[k].options = {option_labels[j] : j \in 1..n}
    /\ questions[k].correct_answer \in DOMAIN questions[k].options

\* ---- properties of the translator (SpecTranslator) ----

\* every attempt for the current text has been made and none gave a translation
RetriesExhausted ==
  /\ Len(t_replies) = max_retries
  /\ \A i \in DOMAIN t_replies : t_replies[i] \in {"empty", "raise"}

\* C21: a text that needs translation gets at most max_retries (3) attempts;
\* when all of them raised or came back empty, translate_quiz ends with an
\* exception; the untranslated text is never handed back as its translation
C21_ExhaustedRetriesRaise ==
  /\ Len(t_replies) <= max_retries
  /\ RetriesExhausted => t_pc = "done" /\ t_out = "Exception"
  /\ ~t_fallback

\* ---- properties of the distribution (SpecTelegram) ----

\* C22: for a file larger than max_size (50 MB) send_pdf never calls the bot
\* API: the size check comes first and the call returns False
C22_OversizedFileIsNotSent ==
  s_op = "send_pdf" /\ s_file.exists /\ s_file.size > max_size =>
    /\ s_api_calls = 0
    /\ s_pc = "returned"
    /\ s_out = "False"

C22_Witness ==
  /\ s_op = "send_pdf"
  /\ s_pc = "returned"
  /\ s_file.size = max_size + 1
  /\ s_out = "False"
  /\ s_api_calls = 0

\* the questions of the messages, one message after the other
RECURSIVE Flatten(_)
Flatten(ms) == IF ms = <<>> THEN <<>> ELSE Head(ms).qs \o Flatten(Tail(ms))

\* C23: every message send_quiz_questions sends is within the limit of 4096
\* characters, whatever the lengths of the questions; every question is in
\* exactly one message and the messages keep the order of the questions
C23_MessagesWithinLimit ==
  /\ \A k \in DOMAIN messages : messages[k].len <= telegram_limit
  /\ s_op = "send_quiz_questions" /\ s_pc = "returned" /\ m_header =>
       Flatten(messages) = [i \in 1..Len(m_lengths) |-> i]

\* ---- properties of process_quiz's calls (Spec) ----

\* the collaborator method a step of process_quiz calls
Method(st) ==
  CASE st = "submit"    -> "submit_quiz"
    [] st = "parse"     -> "parse_quiz"
    [] st = "translate" -> "translate_quiz"
    [] st \in {"pdf_study", "pdf_practice"}   -> "generate_pdf"
    [] st = "send_message"                    -> "send_message"
    [] st \in {"send_study", "send_practice"} -> "send_pdf"
    [] st = "text"      -> "send_quiz_questions"
    [] st = "mark"      -> "mark_processed"

\* how many times process_quiz has called the method in this call
CallCount(m) == Cardinality({i \in DOMAIN calls : Method(calls[i][1]) = m})

ReturnedTrue == stage = "returned" /\ result = TRUE

\* C24: a process_quiz call that returned True called submit_quiz,
\* translate_quiz, generate_pdf and send_pdf exactly once each and marked the
\* url processed
C24_EachStageCalledOnce ==
  ReturnedTrue =>
    /\ CallCount("submit_quiz") = 1
    /\ CallCount("translate_quiz") = 1
    /\ CallCount("generate_pdf") = 1
    /\ CallCount("send_pdf") = 1
    /\ is_processed(url, processed_urls)

\* ---- properties of load_processed_urls (Spec) ----

\* load_processed_urls has been called in this run
LoadCalled == loaded # NoLoad

\* C25: without the remote store, load_processed_urls does not fail whatever
\* the local file holds: a corrupt file (unreadable, or not the expected JSON
\* object) gives the empty set, and a missing file is created holding an
\* empty list
C25_CorruptLocalFileStartsEmpty ==
  (LoadCalled /\ ~use_online) =>
    /\ loaded.done
    /\ loaded.file.kind \in {"garbage", "nonobject", "missing"} => loaded.urls = {}
    /\ loaded.file.kind = "missing" => loaded.after = FileOk(<<>>)

\* ---- properties of two concurrent instances (SpecInstances) ----

BothDone == \A i \in Instances : i_pc[i] = "done"

\* a URL one of the instances marked is in neither store
LostUpdate ==
  \E i \in Instances :
    /\ i_mark[i] \notin set(shared_file.urls)
    /\ shared_online => i_mark[i] \notin set(shared_gist)

\* C26: each mark_processed rewrites the whole store from the marking
\* instance's own set, so when both instances have marked, the file holds
\* exactly the set of the instance that wrote it last (the gist: of the
\* instance whose PATCH succeeded last), and a URL the other instance marked
\* that this set lacks is missing from the store
C26_StoreIsLastWritersSet ==
  BothDone =>
    /\ shared_file = FileOk(sorted(i_urls[last_file]))
    /\ i_mark[Other(last_file)] \notin i_urls[last_file]
         => i_mark[Other(last_file)] \notin set(shared_file.urls)
    /\ last_gist \in Instances => shared_gist = sorted(i_urls[last_gist])

\* both instances loaded, then each marked its own new URL, and the final
\* store (file and gist) lacks one of the two
C26_Witness ==
  /\ BothDone
  /\ shared_online
  /\ \A i \in Instances : i_mark[i] \notin stored_at_start
  /\ \A i \in Instances : i_mark[i] \in i_urls[i]
  /\ LostUpdate

\* ---- properties of the bulk scraper's worker pool (SpecBulk) ----

Succeeded == {k \in Items : future_result[k] = "QuizData"}

\* C27: the result list is written by the coordinating thread only, as it
\* handles completed futures: it never holds an item whose future has not
\* been yielded, a failed worker's item is never in it, no item is in it
\* twice, and when the pool is left it holds exactly the items whose
\* submit_quiz and parse_quiz succeeded
C27_OneEntryPerSuccessfulItem ==
  /\ set(quiz_data_list) = yielded \cap Succeeded
  /\ NoDuplicates(quiz_data_list)
  /\ b_pc = "merge" => set(quiz_data_list) = Succeeded

\* three items on two workers: one failed, and the other two were collected
\* out of the order of submission
C27_Witness ==
  /\ b_pc = "merge"
  /\ month_urls = 3
  /\ \E k \in Items : future_result[k] = "None"
  /\ Len(quiz_data_list) = 2
  /\ quiz_data_list[1] > quiz_data_list[2]

\* C28: once the study-mode send_pdf returned success and the practice-mode
\* send_pdf returned (success or failure), process_quiz marks the url
\* processed and returns True, whatever the text sender did (returned
\* success, returned failure, raised, or is not configured)
C28_OnlyStudySendGatesMarking ==
  (stage = "returned" /\ Called("send_study", "True") /\ ~StageRaised("send_practice")) =>
    /\ Called("mark", "ok")
    /\ result = TRUE
    /\ is_processed(url, processed_urls)

C28_Witness ==
  /\ stage = "returned"
  /\ url \notin entry.processed
  /\ Called("send_study", "True")
  /\ Called("send_practice", "False")
  /\ Called("text", "Exception")
  /\ result = TRUE
  /\ is_processed(url, processed_urls)

C28_WitnessTextFailure ==
  /\ stage = "returned"
  /\ Called("send_study", "True")
  /\ Called("text", "False")
  /\ result = TRUE

\* ---- properties of main()'s processing loop (Spec) ----

\* the urls process_quiz has been entered with in this run of main(), in order
Submitted ==
  [i \in DOMAIN item_log |-> item_log[i].url] \o (IF stage = "idle" THEN <<>> ELSE <<url>>)

\* C29: in one run of main() no url is handed to process_quiz (and so
\* submitted) more than once, also when the listing holds it more than once
C29_EachUrlSubmittedAtMostOnce ==
  caller = "main" => NoDuplicates(Submitted)

\* no collaborator call of this process_quiz failed for a reason outside the program
NoEnvFault == \A i \in DOMAIN calls : calls[i][2] \notin EnvFaults

\* C30: with the components main() constructs, a process_quiz call in which
\* the site, the translation service, the PDF process and the Telegram API
\* all work reaches mark_processed and returns True
C30_OwnComponentsReachSuccess ==
  (caller = "main" /\ stage = "returned" /\ NoEnvFault) =>
    /\ Called("mark", "ok")
    /\ result = TRUE

====
